---- MODULE Spec2Model ----
(***************************************************************************)
(* Aho-Corasick machine of aho_corasick_template_impl.h (ACM_DEFINE):      *)
(* the trie of states with parent back-links, the lazily rebuilt failure   *)
(* layer, and the controller operations register, unregister,              *)
(* is_registered, nb_keywords, reset, match (feed) and get_match.          *)
(*                                                                         *)
(* States are heap objects: heap maps the address of every allocated state *)
(* to its fields; free() removes the address from the domain, so a read of *)
(* a freed state is an error of the model rather than a silent value.      *)
(* A machine created without a copy constructor and a destructor holds     *)
(* symbols of a plain type (char): the copy is the symbol itself and the   *)
(* destructor does nothing.  A machine created with them owns one instance *)
(* per edge; the ledger counts what happens to every instance and to every *)
(* value handed over with a destructor.                                    *)
(***************************************************************************)
EXTENDS Integers, Sequences, FiniteSets, TLC

VARIABLES
  machine,    \* struct _ac_machine: state_0, rank, nb_sequence, reconstruct, size
  heap,       \* address -> struct _ac_state, for the allocated states
  cursor,     \* the caller's const ACState *, NULL before the first reset
  text,       \* history: the symbols fed through the cursor since its reset
  registry,   \* history: the successful registers not yet undone, each with its
              \*          keyword, its value, the rank it was given and the number
              \*          of calls of register made before it
  mutated,    \* history: a keyword was added or removed after the cursor's first feed
  op,         \* history: the last operation called and what it returned
  calls,      \* history: the number of calls of register
  ledger,     \* history: the calls of the copy constructor and of the destructors
  threads,    \* the scanning threads: where each is in ACM_match, its cursor,
              \* the number of symbols it has fed and what its feeds returned
  lock,       \* machine->lock: the thread that holds it, NULL when it is free
  build,      \* the locals of a running state_fail_state_construct
  reference,  \* history: what the scan returns to one thread scanning alone
  rebuilds,   \* history: the runs of state_fail_state_construct begun by the threads
  cursors,    \* the cursors of a caller that scans with several at once, each
              \* with the symbols fed through it and what the feeds gave
  holder      \* the caller's MatchHolder and value pointer, as ACM_get_match
              \* and ACM_is_registered_keyword leave them

vars == <<machine, heap, cursor, text, registry, mutated, op, calls, ledger,
          threads, lock, build, reference, rebuilds, cursors, holder>>

\* The variables of the scanning threads
scanning == <<threads, lock, build, reference, rebuilds, cursors, holder>>

-----------------------------------------------------------------------------
(* Bounds of the model *)

MaxLen == 2        \* longest keyword passed to register / unregister
MaxText == 2       \* symbols fed between two resets
MaxCalls == 3      \* calls of register on one machine, refused ones included

Symbols == {"a", "b"}

RECURSIVE SeqsUpTo(_, _)
SeqsUpTo(S, n) ==
  IF n = 0 THEN {<<>>}
  ELSE LET shorter == SeqsUpTo(S, n - 1)
       IN shorter \cup {Append(s, x) : s \in {t \in shorter : Len(t) = n - 1}, x \in S}

Keywords == SeqsUpTo(Symbols, MaxLen)

-----------------------------------------------------------------------------
(* Pointers *)

NULL == 0            \* the null pointer: no state, no value, no destructor
Indeterminate == -1  \* the value of a pointer whose object has been freed

\* The functions a caller hands over, as pointers
sym_copy == 1        \* a copy constructor, given to ACM_create
sym_drop == 2        \* a symbol destructor, given to ACM_create
free_value == 3      \* a value destructor, given to ACM_register_keyword

\* malloc: an address that is not allocated (the lowest one)
malloc(h) ==
  CHOOSE i \in 1..(Cardinality(DOMAIN h) + 1) :
    /\ i \notin DOMAIN h
    /\ \A j \in 1..(i - 1) : j \in DOMAIN h

\* free
free(h, s) == [x \in DOMAIN h \ {s} |-> h[x]]

-----------------------------------------------------------------------------
(* The ledger of owned objects: copies is the number of calls of the copy
   constructor, the n-th of which made instance n; drops[n] is the number of
   calls of the symbol destructor on instance n; owned is the set of values
   stored in a state together with a destructor; dtors[v] is the number of
   calls of a value destructor on v. *)

NoLedger == [copies |-> 0, drops |-> <<>>, owned |-> {}, dtors |-> <<>>]

Count(f, x) == IF x \in DOMAIN f THEN f[x] ELSE 0

Bump(f, x) == IF x \in DOMAIN f THEN [f EXCEPT ![x] = @ + 1] ELSE f @@ (x :> 1)

-----------------------------------------------------------------------------
(* Symbol protocol: machine->eq, machine->copy, machine->destroy *)

eq(a, b) == a = b

\* __COPY of a plain type returns the symbol; a copy constructor makes a new
\* instance.  instance 0: the symbol is held by value.
copy(m, lg, a) ==
  IF m.copy = NULL THEN [letter |-> a, instance |-> 0, ledger |-> lg]
  ELSE [ letter |-> a, instance |-> lg.copies + 1,
         ledger |-> [lg EXCEPT !.copies = @ + 1, !.drops = Append(@, 0)] ]

\* __DTOR of a plain type does nothing.
destroy(m, lg, instance) ==
  IF m.destroy = NULL \/ instance = 0 THEN lg
  ELSE [lg EXCEPT !.drops = Bump(@, instance)]

\* "if (s->value && s->value_dtor) s->value_dtor (s->value)"
value_dtor(h, lg, s) ==
  IF h[s].value # NULL /\ h[s].value_dtor # NULL
  THEN [lg EXCEPT !.dtors = Bump(@, h[s].value)]
  ELSE lg

-----------------------------------------------------------------------------
(* States *)

state_create ==
  [ goto_array |-> <<>>,
    previous   |-> [state |-> NULL, i_letter |-> 0],
    nb_sequence |-> 0,
    is_matching |-> FALSE,
    fail_state |-> NULL,
    rank       |-> 0,
    value      |-> NULL,
    value_dtor |-> NULL ]

nb_goto(h, s) == Len(h[s].goto_array)

\* The edge of state s labelled by letter: its 1-based position in goto_array,
\* 0 when there is none (the loop "for (; p < end; p++) if (eq (...))").
GotoIndex(h, s, letter) ==
  LET found == {k \in 1..nb_goto(h, s) : eq(h[s].goto_array[k].letter, letter)}
  IN IF found = {} THEN 0
     ELSE CHOOSE k \in found : \A j \in found : k <= j

machine_init(state_0, copier, dtor) ==
  [ state_0 |-> state_0, rank |-> 0, nb_sequence |-> 0, reconstruct |-> 1, size |-> 1,
    copy |-> copier, destroy |-> dtor ]

ACM_create(copier, dtor) ==
  LET state_0 == malloc(<<>>)
  IN [ machine |-> machine_init(state_0, copier, dtor),
       heap |-> (state_0 :> state_create) ]

-----------------------------------------------------------------------------
(* Registration *)

\* The first loop following no edge at all
FollowPrefix_none(h, state, sequence, j) == [state |-> state, j |-> j]

\* First loop of machine_goto_update: follow the existing edges.
RECURSIVE FollowPrefix(_, _, _, _)
FollowPrefix(h, state, sequence, j) ==
  IF j > Len(sequence) THEN [state |-> state, j |-> j]
  ELSE LET k == GotoIndex(h, state, sequence[j])
       IN IF k # 0 THEN FollowPrefix(h, h[state].goto_array[k].state, sequence, j + 1)
          ELSE [state |-> state, j |-> j]

\* Second loop of machine_goto_update: one new state per remaining symbol.
RECURSIVE AppendStates(_, _, _, _, _, _)
AppendStates(m, h, lg, state, sequence, p) ==
  IF p > Len(sequence) THEN [machine |-> m, heap |-> h, ledger |-> lg, state |-> state]
  ELSE LET newstate == malloc(h)
           copied == copy(m, lg, sequence[p])
           edge == [letter |-> copied.letter, instance |-> copied.instance,
                    state |-> newstate]
           created == [state_create EXCEPT
                         !.previous = [state |-> state, i_letter |-> nb_goto(h, state)]]
           h1 == [h EXCEPT ![state].goto_array = Append(@, edge)]
           h2 == h1 @@ (newstate :> created)
       IN AppendStates([m EXCEPT !.size = @ + 1], h2, copied.ledger, newstate,
                       sequence, p + 1)

\* SetKeyword overwriting the value left on the state without destroying it
SetKeyword_keep_stale(m, h, lg, state, value, dtor) ==
  [ machine |-> [m EXCEPT !.rank = @ + 1, !.nb_sequence = @ + 1],
    heap |-> [h EXCEPT ![state].value = value,
                       ![state].value_dtor = dtor,
                       ![state].is_matching = TRUE,
                       ![state].nb_sequence = 1,
                       ![state].rank = m.rank],
    ledger |-> IF value # NULL /\ dtor # NULL
               THEN [lg EXCEPT !.owned = @ \cup {value}] ELSE lg ]

\* The end of machine_goto_update: the state becomes a keyword's last state.
\* A value left on the state by an unregister that kept the state is
\* destroyed; the new value is owned when it comes with a destructor.
SetKeyword(m, h, lg, state, value, dtor) ==
  LET lg1 == value_dtor(h, lg, state)
  IN [ machine |-> [m EXCEPT !.rank = @ + 1, !.nb_sequence = @ + 1],
       heap |-> [h EXCEPT ![state].value = value,
                          ![state].value_dtor = dtor,
                          ![state].is_matching = TRUE,
                          ![state].nb_sequence = 1,
                          ![state].rank = m.rank],
       ledger |-> IF value # NULL /\ dtor # NULL
                  THEN [lg1 EXCEPT !.owned = @ \cup {value}] ELSE lg1 ]

\* machine_goto_update leaving machine->reconstruct as it is
machine_goto_update_no_flag(m, h, lg, sequence, value, dtor) ==
  IF Len(sequence) = 0 THEN [ret |-> 0, machine |-> m, heap |-> h, ledger |-> lg]
  ELSE
    LET walk == FollowPrefix(h, m.state_0, sequence, 1)
        grown == AppendStates(m, h, lg, walk.state, sequence, walk.j)
    IN IF grown.heap[grown.state].is_matching
       THEN [ret |-> 0, machine |-> grown.machine, heap |-> grown.heap,
             ledger |-> grown.ledger]
       ELSE LET set == SetKeyword(grown.machine, grown.heap, grown.ledger,
                                  grown.state, value, dtor)
            IN [ ret |-> 1, machine |-> set.machine, heap |-> set.heap,
                 ledger |-> set.ledger ]

\* machine_goto_update counting the keyword before it finds it registered
machine_goto_update_count_refused(m, h, lg, sequence, value, dtor) ==
  IF Len(sequence) = 0 THEN [ret |-> 0, machine |-> m, heap |-> h, ledger |-> lg]
  ELSE
    LET walk == FollowPrefix(h, m.state_0, sequence, 1)
        grown == AppendStates(m, h, lg, walk.state, sequence, walk.j)
    IN IF grown.heap[grown.state].is_matching
       THEN [ret |-> 0, machine |-> [grown.machine EXCEPT !.nb_sequence = @ + 1],
             heap |-> grown.heap, ledger |-> grown.ledger]
       ELSE LET set == SetKeyword(grown.machine, grown.heap, grown.ledger,
                                  grown.state, value, dtor)
            IN [ ret |-> 1,
                 machine |-> [set.machine EXCEPT !.reconstruct = IF @ = 0 THEN 2 ELSE @],
                 heap |-> set.heap,
                 ledger |-> set.ledger ]

machine_goto_update(m, h, lg, sequence, value, dtor) ==
  IF Len(sequence) = 0 THEN [ret |-> 0, machine |-> m, heap |-> h, ledger |-> lg]
  ELSE
    LET walk == FollowPrefix(h, m.state_0, sequence, 1)
        grown == AppendStates(m, h, lg, walk.state, sequence, walk.j)
    IN IF grown.heap[grown.state].is_matching
       THEN [ret |-> 0, machine |-> grown.machine, heap |-> grown.heap,
             ledger |-> grown.ledger]
       ELSE LET set == SetKeyword(grown.machine, grown.heap, grown.ledger,
                                  grown.state, value, dtor)
            IN [ ret |-> 1,
                 machine |-> [set.machine EXCEPT !.reconstruct = IF @ = 0 THEN 2 ELSE @],
                 heap |-> set.heap,
                 ledger |-> set.ledger ]

\* ACM_register_keyword storing the value before it learns that the keyword
\* is already registered
ACM_register_keyword_overwrite(m, h, lg, y, value, dtor) ==
  LET r == machine_goto_update(m, h, lg, y, value, dtor)
      last == IF Len(y) = 0 THEN NULL ELSE FollowPrefix(r.heap, m.state_0, y, 1).state
  IN IF r.ret = 0 /\ last # NULL
     THEN [r EXCEPT !.heap = [r.heap EXCEPT ![last].value = value]]
     ELSE r

ACM_register_keyword(m, h, lg, y, value, dtor) ==
  machine_goto_update(m, h, lg, y, value, dtor)

ACM_nb_keywords(m) == m.nb_sequence

-----------------------------------------------------------------------------
(* Lookup *)

RECURSIVE FollowAll(_, _, _, _)
FollowAll(h, state, sequence, j) ==
  IF j > Len(sequence) THEN state
  ELSE LET k == GotoIndex(h, state, sequence[j])
       IN IF k # 0 THEN FollowAll(h, h[state].goto_array[k].state, sequence, j + 1)
          ELSE NULL

\* get_last_state without the test of is_matching
get_last_state_any(m, h, sequence) ==
  IF Len(sequence) = 0 THEN NULL
  ELSE FollowAll(h, m.state_0, sequence, 1)

get_last_state(m, h, sequence) ==
  IF Len(sequence) = 0 THEN NULL
  ELSE LET state == FollowAll(h, m.state_0, sequence, 1)
       IN IF state = NULL THEN NULL
          ELSE IF h[state].is_matching THEN state ELSE NULL

\* value is the out-parameter *value, written only when the keyword is found
ACM_is_registered_keyword(m, h, sequence) ==
  LET last == get_last_state(m, h, sequence)
  IN IF last # NULL THEN [ret |-> 1, value |-> h[last].value]
     ELSE [ret |-> 0, value |-> NULL]

-----------------------------------------------------------------------------
(* Unregistration *)

\* The for loop of the do-while loop: machine->destroy on the symbols at the
\* positions k = i_letter .. nb_goto - 1 (0-based, nb_goto already decreased),
\* each called before the position is overwritten by the edge that follows.
RECURSIVE DestroyShifted(_, _, _, _, _)
DestroyShifted(m, lg, old, k, n) ==
  IF k >= n THEN lg
  ELSE DestroyShifted(m, destroy(m, lg, old[k + 1].instance), old, k + 1, n)

\* PruneLoop going on with the parent whether or not it is a keyword's last
\* state
RECURSIVE PruneLoop_through_terminals(_, _, _, _, _)
PruneLoop_through_terminals(m, h, lg, last, freed) ==
  LET prev == h[last].previous.state
      i_letter == h[last].previous.i_letter
      old == h[prev].goto_array
      n == Len(old) - 1
      shifted == [k \in 1..n |-> IF k - 1 < i_letter THEN old[k] ELSE old[k + 1]]
      moved == {k \in 1..n : k - 1 >= i_letter}
      h1 == [s \in DOMAIN h |->
               IF s = prev THEN [h[s] EXCEPT !.goto_array = shifted]
               ELSE IF \E k \in moved : shifted[k].state = s
                    THEN [h[s] EXCEPT !.previous.i_letter =
                            (CHOOSE k \in moved : shifted[k].state = s) - 1]
               ELSE h[s]]
      lg1 == DestroyShifted(m, lg, old, i_letter, n)
      lg2 == value_dtor(h1, lg1, last)
      h2 == free(h1, last)
      m2 == [m EXCEPT !.size = @ - 1]
  IN IF prev # NULL /\ prev # m.state_0 /\ nb_goto(h2, prev) = 0
     THEN PruneLoop_through_terminals(m2, h2, lg2, prev, freed \cup {last})
     ELSE [machine |-> m2, heap |-> h2, ledger |-> lg2, freed |-> freed \cup {last}]

\* PruneLoop without "prev->goto_array[k].state->previous.i_letter = k"
RECURSIVE PruneLoop_no_reindex(_, _, _, _, _)
PruneLoop_no_reindex(m, h, lg, last, freed) ==
  LET prev == h[last].previous.state
      i_letter == h[last].previous.i_letter
      old == h[prev].goto_array
      n == Len(old) - 1
      shifted == [k \in 1..n |-> IF k - 1 < i_letter THEN old[k] ELSE old[k + 1]]
      h1 == [h EXCEPT ![prev].goto_array = shifted]
      lg1 == DestroyShifted(m, lg, old, i_letter, n)
      lg2 == value_dtor(h1, lg1, last)
      h2 == free(h1, last)
      m2 == [m EXCEPT !.size = @ - 1]
  IN IF prev # NULL /\ prev # m.state_0 /\ ~h2[prev].is_matching /\ nb_goto(h2, prev) = 0
     THEN PruneLoop_no_reindex(m2, h2, lg2, prev, freed \cup {last})
     ELSE [machine |-> m2, heap |-> h2, ledger |-> lg2, freed |-> freed \cup {last}]

\* PruneLoop without "machine->size--"
RECURSIVE PruneLoop_keep_size(_, _, _, _, _)
PruneLoop_keep_size(m, h, lg, last, freed) ==
  LET prev == h[last].previous.state
      i_letter == h[last].previous.i_letter
      old == h[prev].goto_array
      n == Len(old) - 1
      shifted == [k \in 1..n |-> IF k - 1 < i_letter THEN old[k] ELSE old[k + 1]]
      moved == {k \in 1..n : k - 1 >= i_letter}
      h1 == [s \in DOMAIN h |->
               IF s = prev THEN [h[s] EXCEPT !.goto_array = shifted]
               ELSE IF \E k \in moved : shifted[k].state = s
                    THEN [h[s] EXCEPT !.previous.i_letter =
                            (CHOOSE k \in moved : shifted[k].state = s) - 1]
               ELSE h[s]]
      lg1 == DestroyShifted(m, lg, old, i_letter, n)
      lg2 == value_dtor(h1, lg1, last)
      h2 == free(h1, last)
  IN IF prev # NULL /\ prev # m.state_0 /\ ~h2[prev].is_matching /\ nb_goto(h2, prev) = 0
     THEN PruneLoop_keep_size(m, h2, lg2, prev, freed \cup {last})
     ELSE [machine |-> m, heap |-> h2, ledger |-> lg2, freed |-> freed \cup {last}]

\* PruneLoop as a single turn: the parent is left as it is
PruneLoop_once(m, h, lg, last, freed) ==
  LET prev == h[last].previous.state
      i_letter == h[last].previous.i_letter
      old == h[prev].goto_array
      n == Len(old) - 1
      shifted == [k \in 1..n |-> IF k - 1 < i_letter THEN old[k] ELSE old[k + 1]]
      moved == {k \in 1..n : k - 1 >= i_letter}
      h1 == [s \in DOMAIN h |->
               IF s = prev THEN [h[s] EXCEPT !.goto_array = shifted]
               ELSE IF \E k \in moved : shifted[k].state = s
                    THEN [h[s] EXCEPT !.previous.i_letter =
                            (CHOOSE k \in moved : shifted[k].state = s) - 1]
               ELSE h[s]]
      lg1 == DestroyShifted(m, lg, old, i_letter, n)
      lg2 == value_dtor(h1, lg1, last)
      h2 == free(h1, last)
      m2 == [m EXCEPT !.size = @ - 1]
  IN [machine |-> m2, heap |-> h2, ledger |-> lg2, freed |-> freed \cup {last}]

\* The do-while loop of ACM_unregister_keyword: unlink last from its parent,
\* shift the following edges down and re-index their targets, free last, and
\* go on with the parent while it is a non-terminal leaf other than state_0.
\* freed collects the addresses released.
RECURSIVE PruneLoop(_, _, _, _, _)
PruneLoop(m, h, lg, last, freed) ==
  LET prev == h[last].previous.state
      i_letter == h[last].previous.i_letter
      old == h[prev].goto_array
      n == Len(old) - 1
      shifted == [k \in 1..n |-> IF k - 1 < i_letter THEN old[k] ELSE old[k + 1]]
      moved == {k \in 1..n : k - 1 >= i_letter}
      h1 == [s \in DOMAIN h |->
               IF s = prev THEN [h[s] EXCEPT !.goto_array = shifted]
               ELSE IF \E k \in moved : shifted[k].state = s
                    THEN [h[s] EXCEPT !.previous.i_letter =
                            (CHOOSE k \in moved : shifted[k].state = s) - 1]
               ELSE h[s]]
      lg1 == DestroyShifted(m, lg, old, i_letter, n)
      lg2 == value_dtor(h1, lg1, last)
      h2 == free(h1, last)
      m2 == [m EXCEPT !.size = @ - 1]
  IN IF prev # NULL /\ prev # m.state_0 /\ ~h2[prev].is_matching /\ nb_goto(h2, prev) = 0
     THEN PruneLoop(m2, h2, lg2, prev, freed \cup {last})
     ELSE [machine |-> m2, heap |-> h2, ledger |-> lg2, freed |-> freed \cup {last}]

\* ACM_unregister_keyword giving the rank counter back, as it gives back
\* nb_sequence
ACM_unregister_keyword_rank_back(m, h, lg, y) ==
  LET last == get_last_state(m, h, y)
  IN IF last = NULL
     THEN [ret |-> 0, machine |-> m, heap |-> h, ledger |-> lg, freed |-> {}]
     ELSE
       LET m1 == [m EXCEPT !.nb_sequence = @ - 1, !.rank = @ - 1]
       IN IF nb_goto(h, last) # 0
          THEN [ ret |-> 1, machine |-> m1, ledger |-> lg, freed |-> {},
                 heap |-> [h EXCEPT ![last].is_matching = FALSE,
                                    ![last].nb_sequence = 0,
                                    ![last].rank = 0] ]
          ELSE
            LET pruned == PruneLoop(m1, h, lg, last, {})
            IN [ ret |-> 1,
                 machine |-> [pruned.machine EXCEPT !.reconstruct = IF @ = 0 THEN 2 ELSE @],
                 heap |-> pruned.heap,
                 ledger |-> pruned.ledger,
                 freed |-> pruned.freed ]

\* ACM_unregister_keyword leaving a state that has children a keyword's
\* last state
ACM_unregister_keyword_keep_terminal(m, h, lg, y) ==
  LET last == get_last_state(m, h, y)
  IN IF last = NULL
     THEN [ret |-> 0, machine |-> m, heap |-> h, ledger |-> lg, freed |-> {}]
     ELSE
       LET m1 == [m EXCEPT !.nb_sequence = @ - 1]
       IN IF nb_goto(h, last) # 0
          THEN [ ret |-> 1, machine |-> m1, ledger |-> lg, freed |-> {},
                 heap |-> [h EXCEPT ![last].nb_sequence = 0, ![last].rank = 0] ]
          ELSE
            LET pruned == PruneLoop(m1, h, lg, last, {})
            IN [ ret |-> 1,
                 machine |-> [pruned.machine EXCEPT !.reconstruct = IF @ = 0 THEN 2 ELSE @],
                 heap |-> pruned.heap,
                 ledger |-> pruned.ledger,
                 freed |-> pruned.freed ]

ACM_unregister_keyword_no_count(m, h, lg, y) ==
  LET last == get_last_state(m, h, y)
  IN IF last = NULL
     THEN [ret |-> 0, machine |-> m, heap |-> h, ledger |-> lg, freed |-> {}]
     ELSE
       IF nb_goto(h, last) # 0
       THEN [ ret |-> 1, machine |-> m, ledger |-> lg, freed |-> {},
              heap |-> [h EXCEPT ![last].is_matching = FALSE,
                                 ![last].nb_sequence = 0,
                                 ![last].rank = 0] ]
       ELSE
         LET pruned == PruneLoop(m, h, lg, last, {})
         IN [ ret |-> 1,
              machine |-> [pruned.machine EXCEPT !.reconstruct = IF @ = 0 THEN 2 ELSE @],
              heap |-> pruned.heap,
              ledger |-> pruned.ledger,
              freed |-> pruned.freed ]

\* ACM_unregister_keyword without "last->nb_sequence = 0" for a state that
\* has children
ACM_unregister_keyword_keep_output(m, h, lg, y) ==
  LET last == get_last_state(m, h, y)
  IN IF last = NULL
     THEN [ret |-> 0, machine |-> m, heap |-> h, ledger |-> lg, freed |-> {}]
     ELSE
       LET m1 == [m EXCEPT !.nb_sequence = @ - 1]
       IN IF nb_goto(h, last) # 0
          THEN [ ret |-> 1, machine |-> m1, ledger |-> lg, freed |-> {},
                 heap |-> [h EXCEPT ![last].is_matching = FALSE,
                                    ![last].rank = 0] ]
          ELSE
            LET pruned == PruneLoop(m1, h, lg, last, {})
            IN [ ret |-> 1,
                 machine |-> [pruned.machine EXCEPT !.reconstruct = IF @ = 0 THEN 2 ELSE @],
                 heap |-> pruned.heap,
                 ledger |-> pruned.ledger,
                 freed |-> pruned.freed ]

ACM_unregister_keyword(m, h, lg, y) ==
  LET last == get_last_state(m, h, y)
  IN IF last = NULL
     THEN [ret |-> 0, machine |-> m, heap |-> h, ledger |-> lg, freed |-> {}]
     ELSE
       LET m1 == [m EXCEPT !.nb_sequence = @ - 1]
       IN IF nb_goto(h, last) # 0
          THEN [ ret |-> 1, machine |-> m1, ledger |-> lg, freed |-> {},
                 heap |-> [h EXCEPT ![last].is_matching = FALSE,
                                    ![last].nb_sequence = 0,
                                    ![last].rank = 0] ]
          ELSE
            LET pruned == PruneLoop(m1, h, lg, last, {})
            IN [ ret |-> 1,
                 machine |-> [pruned.machine EXCEPT !.reconstruct = IF @ = 0 THEN 2 ELSE @],
                 heap |-> pruned.heap,
                 ledger |-> pruned.ledger,
                 freed |-> pruned.freed ]

-----------------------------------------------------------------------------
(* Release *)

\* state_release: the subtree of every edge, then the edge's symbol, then the
\* state's value, then the state.
RECURSIVE state_release(_, _, _, _), ReleaseEdges(_, _, _, _, _)
state_release(m, h, lg, state) ==
  LET done == ReleaseEdges(m, h, lg, state, 1)
  IN [ heap |-> free(done.heap, state),
       ledger |-> value_dtor(done.heap, done.ledger, state) ]

ReleaseEdges(m, h, lg, state, k) ==
  IF k > nb_goto(h, state) THEN [heap |-> h, ledger |-> lg]
  ELSE LET sub == state_release(m, h, lg, h[state].goto_array[k].state)
       IN ReleaseEdges(m, sub.heap,
                       destroy(m, sub.ledger, h[state].goto_array[k].instance),
                       state, k + 1)

\* ACM_cleanup, then free (machine): the fields of the machine are gone
ACM_release(m, h, lg) ==
  LET r == state_release(m, h, lg, m.state_0)
  IN [ machine |-> [f \in DOMAIN m |-> Indeterminate],
       heap |-> r.heap, ledger |-> r.ledger ]

-----------------------------------------------------------------------------
(* Failure layer *)

\* state_goto giving up at the first state without the edge: back to state_0
\* (the state itself when it is state_0) instead of down the failure chain
state_goto_no_chain(h, state, letter) ==
  LET k == GotoIndex(h, state, letter)
      RECURSIVE root(_)
      root(s) == IF h[s].previous.state = NULL THEN s ELSE root(h[s].previous.state)
  IN IF k # 0 THEN h[state].goto_array[k].state ELSE root(state)

\* state_goto following one fail link only: the fail state itself is
\* returned when it has no edge by letter either
state_goto_one_fail(h, state, letter) ==
  LET k == GotoIndex(h, state, letter)
      f == h[state].fail_state
  IN IF k # 0 THEN h[state].goto_array[k].state
     ELSE IF f = NULL THEN state
     ELSE IF GotoIndex(h, f, letter) # 0
          THEN h[f].goto_array[GotoIndex(h, f, letter)].state
          ELSE f

\* The goto function with the failure chain: the transition delta(state, letter)
RECURSIVE state_goto(_, _, _)
state_goto(h, state, letter) ==
  LET k == GotoIndex(h, state, letter)
  IN IF k # 0 THEN h[state].goto_array[k].state
     ELSE IF h[state].fail_state = NULL THEN state
     ELSE state_goto(h, h[state].fail_state, letter)

RECURSIVE state_reset_output(_, _), ResetChildren(_, _, _)
state_reset_output(h, r) ==
  ResetChildren([h EXCEPT ![r].nb_sequence = IF h[r].is_matching THEN 1 ELSE 0], r, 1)

ResetChildren(h, r, k) ==
  IF k > nb_goto(h, r) THEN h
  ELSE ResetChildren(state_reset_output(h, h[r].goto_array[k].state), r, k + 1)

\* First loop of state_fail_state_construct: the children of state_0 are
\* queued and fail to state_0.
RECURSIVE QueueRootChildren(_, _, _, _)
QueueRootChildren(h, state_0, queue, k) ==
  IF k > nb_goto(h, state_0) THEN [heap |-> h, queue |-> queue]
  ELSE LET s == h[state_0].goto_array[k].state
       IN QueueRootChildren([h EXCEPT ![s].fail_state = state_0], state_0,
                            Append(queue, s), k + 1)

\* FailChildren without "s->nb_sequence += s->fail_state->nb_sequence"
RECURSIVE FailChildren_no_output(_, _, _, _)
FailChildren_no_output(h, queue, r, k) ==
  IF k > nb_goto(h, r) THEN [heap |-> h, queue |-> queue]
  ELSE LET s == h[r].goto_array[k].state
           a == h[r].goto_array[k].letter
           f == state_goto(h, h[r].fail_state, a)
           h1 == [h EXCEPT ![s].fail_state = f]
       IN FailChildren_no_output(h1, Append(queue, s), r, k + 1)

\* FailChildren looking for the fail state from state_0 instead of from the
\* fail state of r
RECURSIVE FailChildren_from_root(_, _, _, _)
FailChildren_from_root(h, queue, r, k) ==
  IF k > nb_goto(h, r) THEN [heap |-> h, queue |-> queue]
  ELSE LET RECURSIVE root(_)
           root(t) == IF h[t].previous.state = NULL THEN t ELSE root(h[t].previous.state)
           s == h[r].goto_array[k].state
           a == h[r].goto_array[k].letter
           f == state_goto(h, root(r), a)
           h1 == [h EXCEPT ![s].fail_state = f,
                           ![s].nb_sequence = @ + h[f].nb_sequence]
       IN FailChildren_from_root(h1, Append(queue, s), r, k + 1)

\* Inner loop: the edges of the dequeued state r, from the k-th on.
RECURSIVE FailChildren(_, _, _, _)
FailChildren(h, queue, r, k) ==
  IF k > nb_goto(h, r) THEN [heap |-> h, queue |-> queue]
  ELSE LET s == h[r].goto_array[k].state
           a == h[r].goto_array[k].letter
           f == state_goto(h, h[r].fail_state, a)
           h1 == [h EXCEPT ![s].fail_state = f,
                           ![s].nb_sequence = @ + h[f].nb_sequence]
       IN FailChildren(h1, Append(queue, s), r, k + 1)

\* The loop going depth first: the children of the dequeued state are put
\* right behind it instead of at the end of the queue
RECURSIVE FailLoop_depth_first(_, _, _)
FailLoop_depth_first(h, queue, queue_read_pos) ==
  IF queue_read_pos >= Len(queue) THEN [heap |-> h, queue |-> queue]
  ELSE LET r == queue[queue_read_pos + 1]
           done == FailChildren(h, <<>>, r, 1)
           next == SubSeq(queue, 1, queue_read_pos + 1) \o done.queue
                     \o SubSeq(queue, queue_read_pos + 2, Len(queue))
       IN FailLoop_depth_first(done.heap, next, queue_read_pos + 1)

\* Outer loop: breadth first over the queue.
RECURSIVE FailLoop(_, _, _)
FailLoop(h, queue, queue_read_pos) ==
  IF queue_read_pos >= Len(queue) THEN [heap |-> h, queue |-> queue]
  ELSE LET r == queue[queue_read_pos + 1]
           done == FailChildren(h, queue, r, 1)
       IN FailLoop(done.heap, done.queue, queue_read_pos + 1)

state_fail_state_construct(m, h) ==
  LET state_0 == m.state_0
      h0 == IF m.reconstruct = 2 THEN state_reset_output(h, state_0) ELSE h
      h1 == [h0 EXCEPT ![state_0].fail_state = NULL]
      first == QueueRootChildren(h1, state_0, <<>>, 1)
      all == FailLoop(first.heap, first.queue, 0)
  IN [ machine |-> [m EXCEPT !.reconstruct = 0], heap |-> all.heap, queue |-> all.queue ]

-----------------------------------------------------------------------------
(* Scanning *)

ACM_reset(m) == m.state_0

\* ACM_match returning 1 or 0 for the new state's own keyword
ACM_match_own(m, h, pstate, letter) ==
  LET built == IF m.reconstruct # 0 THEN state_fail_state_construct(m, h)
               ELSE [machine |-> m, heap |-> h]
      next == state_goto(built.heap, pstate, letter)
  IN [ machine |-> built.machine, heap |-> built.heap, pstate |-> next,
       ret |-> IF built.heap[next].is_matching THEN 1 ELSE 0,
       rebuilt |-> IF m.reconstruct # 0 THEN 1 ELSE 0 ]

\* ACM_match running state_fail_state_construct at every call, the counts
\* of the previous run left in place
ACM_match_rebuild_always(m, h, pstate, letter) ==
  LET built == state_fail_state_construct([m EXCEPT !.reconstruct = 1], h)
      next == state_goto(built.heap, pstate, letter)
  IN [ machine |-> built.machine, heap |-> built.heap, pstate |-> next,
       ret |-> built.heap[next].nb_sequence,
       rebuilt |-> 1 ]

\* pstate is the caller's cursor, updated in place; rebuilt counts the calls
\* of state_fail_state_construct made by this feed.
ACM_match(m, h, pstate, letter) ==
  LET built == IF m.reconstruct # 0 THEN state_fail_state_construct(m, h)
               ELSE [machine |-> m, heap |-> h]
      next == state_goto(built.heap, pstate, letter)
  IN [ machine |-> built.machine, heap |-> built.heap, pstate |-> next,
       ret |-> built.heap[next].nb_sequence,
       rebuilt |-> IF m.reconstruct # 0 THEN 1 ELSE 0 ]

\* The loop of ACM_get_match over the fail chain; the result is the state the
\* loop ends on, NULL when the chain is exhausted before index is reached.
RECURSIVE MatchState(_, _, _, _)
SkipNonMatching(h, state) ==
  LET RECURSIVE skip(_)
      skip(s) == IF ~h[s].is_matching /\ h[s].fail_state # NULL
                 THEN skip(h[s].fail_state) ELSE s
  IN skip(state)

MatchState(h, state, index, i) ==
  IF state = NULL THEN NULL
  ELSE LET s == SkipNonMatching(h, state)
       IN IF i = index THEN s
          ELSE MatchState(h, h[s].fail_state, index, i + 1)

\* MatchLetters filling match->letter from the front: the keyword comes out
\* in the order of the walk, last symbol first
RECURSIVE MatchLetters_forward(_, _)
MatchLetters_forward(h, s) ==
  IF s = NULL \/ h[s].previous.state = NULL THEN <<>>
  ELSE LET prev == h[s].previous.state
       IN <<h[prev].goto_array[h[s].previous.i_letter + 1].letter>>
            \o MatchLetters_forward(h, prev)

\* The symbols on the path from state_0 to state, read through the back-links
RECURSIVE MatchLetters(_, _)
MatchLetters(h, s) ==
  IF s = NULL \/ h[s].previous.state = NULL THEN <<>>
  ELSE LET prev == h[s].previous.state
       IN Append(MatchLetters(h, prev),
                 h[prev].goto_array[h[s].previous.i_letter + 1].letter)

\* ACM_get_match without "ACM_ASSERT (index < state->nb_sequence)"
ACM_get_match_unchecked(h, state, index) ==
  LET found == MatchState(h, state, index, 0)
  IN IF found = NULL THEN [fatal |-> TRUE]
     ELSE [ fatal |-> FALSE,
            letter |-> MatchLetters(h, found),
            rank |-> h[found].rank,
            value |-> h[found].value ]

\* fatal: ACM_ASSERT stopped the thread, or the null state was dereferenced
ACM_get_match(h, state, index) ==
  IF ~(index < h[state].nb_sequence) THEN [fatal |-> TRUE]
  ELSE LET found == MatchState(h, state, index, 0)
       IN IF found = NULL THEN [fatal |-> TRUE]
          ELSE [ fatal |-> FALSE,
                 letter |-> MatchLetters(h, found),
                 rank |-> h[found].rank,
                 value |-> h[found].value ]

-----------------------------------------------------------------------------
(* Traversal *)

\* A callback of the caller, as passed to ACM_foreach_keyword
on_keyword == 4

\* letters[depth] = letter, in a buffer of 0-based C indices
Store(letters, depth, letter) ==
  [i \in 1..(IF depth + 1 > Len(letters) THEN depth + 1 ELSE Len(letters)) |->
     IF i = depth + 1 THEN letter ELSE letters[i]]

\* foreach_keyword calling the operator for every state below state_0
RECURSIVE foreach_keyword_every_state(_, _, _, _, _)
RECURSIVE ForeachEdges_every_state(_, _, _, _, _, _)
foreach_keyword_every_state(h, state, letters, depth, called) ==
  LET k == [letter |-> SubSeq(letters, 1, depth), length |-> depth,
            rank |-> h[state].rank, value |-> h[state].value]
      called1 == IF depth # 0 THEN Append(called, k) ELSE called
  IN ForeachEdges_every_state(h, state, letters, depth, called1, 1)

ForeachEdges_every_state(h, state, letters, depth, called, p) ==
  IF p > nb_goto(h, state) THEN [letters |-> letters, called |-> called]
  ELSE LET edge == h[state].goto_array[p]
           below == foreach_keyword_every_state(h, edge.state,
                      Store(letters, depth, edge.letter), depth + 1, called)
       IN ForeachEdges_every_state(h, state, below.letters, depth, below.called, p + 1)

\* foreach_keyword: called is the sequence of the calls of the operator made
\* so far, each with the keyword it is handed (the first depth symbols of
\* the buffer at the time of the call) and the value.
RECURSIVE foreach_keyword(_, _, _, _, _)
RECURSIVE ForeachEdges(_, _, _, _, _, _)
foreach_keyword(h, state, letters, depth, called) ==
  LET k == [letter |-> SubSeq(letters, 1, depth), length |-> depth,
            rank |-> h[state].rank, value |-> h[state].value]
      called1 == IF h[state].is_matching /\ depth # 0
                 THEN Append(called, k) ELSE called
  IN ForeachEdges(h, state, letters, depth, called1, 1)

\* The loop of foreach_keyword over the edges of state, from the p-th on
ForeachEdges(h, state, letters, depth, called, p) ==
  IF p > nb_goto(h, state) THEN [letters |-> letters, called |-> called]
  ELSE LET edge == h[state].goto_array[p]
           below == foreach_keyword(h, edge.state,
                      Store(letters, depth, edge.letter), depth + 1, called)
       IN ForeachEdges(h, state, below.letters, depth, below.called, p + 1)

\* The calls of the operator, in order
ACM_foreach_keyword(m, h, operator) ==
  IF operator = NULL THEN <<>>
  ELSE foreach_keyword(h, m.state_0, <<>>, 0, <<>>).called

-----------------------------------------------------------------------------
(* The program *)

\* ACM_MATCH_INIT (match), and a value pointer not yet written
NoMatch == [letter |-> <<>>, length |-> 0, rank |-> 0, value |-> NULL]

\* No rebuild is running
NoBuild == [queue |-> <<>>, queue_read_pos |-> 0]

\* The machine of a plain symbol type, just created
Init ==
  /\ machine = ACM_create(NULL, NULL).machine
  /\ heap = ACM_create(NULL, NULL).heap
  /\ cursor = NULL
  /\ text = <<>>
  /\ registry = {}
  /\ mutated = FALSE
  /\ op = [name |-> "create", ret |-> 0, rebuilt |-> 0]
  /\ calls = 0
  /\ ledger = NoLedger
  /\ threads = <<>>
  /\ lock = NULL
  /\ build = NoBuild
  /\ reference = <<>>
  /\ rebuilds = 0
  /\ cursors = <<>>
  /\ holder = NoMatch

\* The machine has not been released
Alive == machine.state_0 # Indeterminate

Register(y, value, dtor) ==
  LET r == ACM_register_keyword(machine, heap, ledger, y, value, dtor)
  IN /\ Alive
     /\ machine' = r.machine
     /\ heap' = r.heap
     /\ ledger' = r.ledger
     /\ calls' = calls + 1
     /\ registry' = IF r.ret = 1
                    THEN registry \cup {[keyword |-> y, value |-> value,
                                         rank |-> machine.rank, call |-> calls]}
                    ELSE registry
     /\ mutated' = (mutated \/ (r.ret = 1 /\ text # <<>>))
     /\ op' = [name |-> "register", ret |-> r.ret, rebuilt |-> 0]
     /\ UNCHANGED <<cursor, text, scanning>>

\* A cursor into a state that unregister frees is left indeterminate.
Unregister(y) ==
  LET r == ACM_unregister_keyword(machine, heap, ledger, y)
  IN /\ Alive
     /\ machine' = r.machine
     /\ heap' = r.heap
     /\ ledger' = r.ledger
     /\ cursor' = IF cursor \in r.freed THEN Indeterminate ELSE cursor
     /\ registry' = IF r.ret = 1 THEN {e \in registry : e.keyword # y} ELSE registry
     /\ mutated' = (mutated \/ (r.ret = 1 /\ text # <<>>))
     /\ op' = [name |-> "unregister", ret |-> r.ret, rebuilt |-> 0]
     /\ UNCHANGED <<text, calls, scanning>>

Reset ==
  /\ Alive
  /\ cursor' = ACM_reset(machine)
  /\ text' = <<>>
  /\ mutated' = FALSE
  /\ op' = [name |-> "reset", ret |-> 0, rebuilt |-> 0]
  /\ UNCHANGED <<machine, heap, registry, calls, ledger, scanning>>

\* A feed through an indeterminate cursor reads freed memory: what it returns
\* and whether it gets as far as the rebuild is not determined by the program.
Feed(letter) ==
  /\ Alive
  /\ cursor # NULL
  /\ \/ /\ cursor # Indeterminate
        /\ LET r == ACM_match(machine, heap, cursor, letter)
           IN /\ machine' = r.machine
              /\ heap' = r.heap
              /\ cursor' = r.pstate
              /\ op' = [name |-> "feed", ret |-> r.ret, rebuilt |-> r.rebuilt]
     \/ /\ cursor = Indeterminate
        /\ \E built \in BOOLEAN, n \in 0..machine.rank :
             LET r == IF built /\ machine.reconstruct # 0
                      THEN state_fail_state_construct(machine, heap)
                      ELSE [machine |-> machine, heap |-> heap]
             IN /\ machine' = r.machine
                /\ heap' = r.heap
                /\ op' = [name |-> "feed", ret |-> n,
                          rebuilt |-> IF built /\ machine.reconstruct # 0 THEN 1 ELSE 0]
        /\ cursor' = Indeterminate
  /\ text' = Append(text, letter)
  /\ UNCHANGED <<registry, mutated, calls, ledger, scanning>>

\* The end of the machine's life: every state, symbol and value it owns is
\* given back, and every cursor dangles.
Release ==
  LET r == ACM_release(machine, heap, ledger)
  IN /\ Alive
     /\ machine' = r.machine
     /\ heap' = r.heap
     /\ ledger' = r.ledger
     /\ cursor' = IF cursor = NULL THEN NULL ELSE Indeterminate
     /\ registry' = {}
     /\ op' = [name |-> "release", ret |-> 0, rebuilt |-> 0]
     /\ UNCHANGED <<text, mutated, calls, scanning>>

\* The value pointer a caller passes to register: every call brings a value
\* of its own.
NewValue == calls + 1

Next ==
  \/ \E y \in Keywords :
       calls < MaxCalls /\ Register(y, NewValue, NULL)
  \/ \E y \in Keywords : Unregister(y)
  \/ Reset
  \/ \E letter \in Symbols : Len(text) < MaxText /\ Feed(letter)

Spec == Init /\ [][Next]_vars

\* The machine when keywords are only ever added
NextRegisterOnly ==
  \/ \E y \in Keywords :
       calls < MaxCalls /\ Register(y, NewValue, NULL)
  \/ Reset
  \/ \E letter \in Symbols : Len(text) < MaxText /\ Feed(letter)

SpecRegisterOnly == Init /\ [][NextRegisterOnly]_vars

-----------------------------------------------------------------------------
(* The reference scenarios: the keywords and the text are those of the
   scenario, the calls come in any order. *)

he == <<"h", "e">>
she == <<"s", "h", "e">>
his == <<"h", "i", "s">>
hers == <<"h", "e", "r", "s">>
UshersKeywords == {he, she, his, hers}
UshersText == <<"u", "s", "h", "e", "r", "s">>

\* The keywords change between the scans, not during one.
NextUshers ==
  \/ \E y \in UshersKeywords :
       /\ calls < Cardinality(UshersKeywords)
       /\ text = <<>>
       /\ Register(y, NewValue, NULL)
  \/ \E y \in UshersKeywords : text = <<>> /\ Unregister(y)
  \/ Reset
  \/ Len(text) < Len(UshersText) /\ Feed(UshersText[Len(text) + 1])

SpecUshers == Init /\ [][NextUshers]_vars

abcde == <<"a", "b", "c", "d", "e">>
bcd == <<"b", "c", "d">>
AbcdeKeywords == {abcde, bcd}
AbcdeText == abcde

NextAbcde ==
  \/ \E y \in AbcdeKeywords :
       calls < Cardinality(AbcdeKeywords) + 1 /\ Register(y, NewValue, NULL)
  \/ \E y \in AbcdeKeywords : Unregister(y)
  \/ Reset
  \/ Len(text) < Len(AbcdeText) /\ Feed(AbcdeText[Len(text) + 1])

SpecAbcde == Init /\ [][NextAbcde]_vars

\* Registering while scanning: the keywords come in the order a, ab, bc, the
\* i-th one before the i-th feed, through one cursor that is not reset once
\* it has been fed.
InterleavedKeywords == << <<"a">>, <<"a", "b">>, <<"b", "c">> >>
InterleavedSymbols == {"a", "b", "c"}

NextInterleaved ==
  \/ \E i \in 1..Len(InterleavedKeywords) :
       /\ i <= machine.rank + 1
       /\ calls < Len(InterleavedKeywords) + 1
       /\ Register(InterleavedKeywords[i], NewValue, NULL)
  \/ text = <<>> /\ Reset
  \/ \E letter \in InterleavedSymbols :
       /\ Len(text) < Len(InterleavedKeywords)
       /\ machine.rank > Len(text)
       /\ Feed(letter)

SpecInterleaved == Init /\ [][NextInterleaved]_vars

\* The life of a machine whose values come with or without a destructor:
\* keywords are registered and unregistered, then the machine is released.
Dtors == {NULL, free_value}

NextValues ==
  \/ \E y \in Keywords, dtor \in Dtors :
       calls < MaxCalls /\ Register(y, NewValue, dtor)
  \/ \E y \in Keywords : Unregister(y)
  \/ Release

SpecValues == Init /\ [][NextValues]_vars

\* The life of a machine created with a copy constructor and a destructor
\* for its symbols.
InitSymbols ==
  /\ machine = ACM_create(sym_copy, sym_drop).machine
  /\ heap = ACM_create(sym_copy, sym_drop).heap
  /\ cursor = NULL
  /\ text = <<>>
  /\ registry = {}
  /\ mutated = FALSE
  /\ op = [name |-> "create", ret |-> 0, rebuilt |-> 0]
  /\ calls = 0
  /\ ledger = NoLedger
  /\ threads = <<>>
  /\ lock = NULL
  /\ build = NoBuild
  /\ reference = <<>>
  /\ rebuilds = 0
  /\ cursors = <<>>
  /\ holder = NoMatch

SymbolKeywords == Keywords \cup {<<"c">>}

\* The edges of the trie
Edges == UNION {{<<s, k>> : k \in 1..nb_goto(heap, s)} : s \in DOMAIN heap}

InstanceOf(edge) == heap[edge[1]].goto_array[edge[2]].instance

\* An edge holds a symbol that the destructor has been called on: from here
\* every comparison with that symbol reads an object that is gone.
Dangling == \E edge \in Edges : Count(ledger.drops, InstanceOf(edge)) > 0

\* The calls that compare symbols are followed as long as no edge dangles.
NextSymbols ==
  \/ \E y \in SymbolKeywords :
       calls < MaxCalls /\ ~Dangling /\ Register(y, NewValue, NULL)
  \/ \E y \in SymbolKeywords : ~Dangling /\ Unregister(y)
  \/ Release

SpecSymbols == InitSymbols /\ [][NextSymbols]_vars

-----------------------------------------------------------------------------
(* Concurrent scanning: once the keywords are registered, the threads are
   started; each takes a cursor by ACM_reset and feeds the symbols of
   ThreadsText through ACM_match, one statement at a time. *)

Threads == {1, 2}
ThreadsKeywords == {<<"a">>, <<"b">>, <<"a", "b">>}
ThreadsText == <<"a", "b">>

\* The counts ACM_match returns for the symbols of t from the j-th on
RECURSIVE Counts(_, _, _, _, _)
Counts(m, h, pstate, t, j) ==
  IF j > Len(t) THEN <<>>
  ELSE LET r == ACM_match(m, h, pstate, t[j])
       IN <<r.ret>> \o Counts(r.machine, r.heap, r.pstate, t, j + 1)

\* The threads are created; reference is the scan of one thread alone.
Spawn ==
  /\ threads = <<>>
  /\ threads' = [t \in Threads |->
                   [pc |-> "reset", cursor |-> NULL, fed |-> 0, rets |-> <<>>]]
  /\ reference' = Counts(machine, heap, ACM_reset(machine), ThreadsText, 1)
  /\ op' = [name |-> "spawn", ret |-> 0, rebuilt |-> 0]
  /\ rebuilds' = 0
  /\ UNCHANGED <<machine, heap, cursor, text, registry, mutated, calls, ledger,
                 lock, build, cursors, holder>>

\* What a step of a thread leaves alone
ThreadFrame ==
  UNCHANGED <<cursor, text, registry, mutated, op, calls, ledger, reference, cursors,
              holder>>

At(t, pc) == t \in DOMAIN threads /\ threads[t].pc = pc

Goto(t, pc) == threads' = [threads EXCEPT ![t].pc = pc]

\* state = ACM_reset (machine)
T_Reset(t) ==
  /\ At(t, "reset")
  /\ threads' = [threads EXCEPT ![t].cursor = ACM_reset(machine), ![t].pc = "check"]
  /\ UNCHANGED <<machine, heap, lock, build, rebuilds>>
  /\ ThreadFrame

\* ACM_match: "if (machine->reconstruct)", read without the lock
T_Check(t) ==
  /\ At(t, "check")
  /\ Goto(t, IF machine.reconstruct # 0 THEN "lock" ELSE "goto")
  /\ UNCHANGED <<machine, heap, lock, build, rebuilds>>
  /\ ThreadFrame

\* pthread_mutex_lock (&machine->lock)
T_Lock(t) ==
  /\ At(t, "lock")
  /\ lock = NULL
  /\ lock' = t
  /\ Goto(t, "recheck")
  /\ UNCHANGED <<machine, heap, build, rebuilds>>
  /\ ThreadFrame

\* "if (machine->reconstruct)" under the lock; when set, the start of
\* state_fail_state_construct up to the while loop
T_Recheck(t) ==
  /\ At(t, "recheck")
  /\ IF machine.reconstruct # 0
     THEN LET state_0 == machine.state_0
              h0 == IF machine.reconstruct = 2
                    THEN state_reset_output(heap, state_0) ELSE heap
              h1 == [h0 EXCEPT ![state_0].fail_state = NULL]
              first == QueueRootChildren(h1, state_0, <<>>, 1)
          IN /\ heap' = first.heap
             /\ build' = [queue |-> first.queue, queue_read_pos |-> 0]
             /\ rebuilds' = rebuilds + 1
             /\ Goto(t, "construct")
     ELSE /\ Goto(t, "unlock")
          /\ UNCHANGED <<heap, build, rebuilds>>
  /\ UNCHANGED <<machine, lock>>
  /\ ThreadFrame

\* One turn of the while loop of state_fail_state_construct; after the last
\* one, "machine->reconstruct = 0"
T_Construct(t) ==
  /\ At(t, "construct")
  /\ IF build.queue_read_pos < Len(build.queue)
     THEN LET r == build.queue[build.queue_read_pos + 1]
              done == FailChildren(heap, build.queue, r, 1)
          IN /\ heap' = done.heap
             /\ build' = [queue |-> done.queue,
                          queue_read_pos |-> build.queue_read_pos + 1]
             /\ UNCHANGED <<machine, threads>>
     ELSE /\ machine' = [machine EXCEPT !.reconstruct = 0]
          /\ build' = NoBuild
          /\ Goto(t, "unlock")
          /\ UNCHANGED heap
  /\ UNCHANGED <<lock, rebuilds>>
  /\ ThreadFrame

\* The store "machine->reconstruct = 0" races with the read of T_Check,
\* which takes no lock: nothing orders the stores of the rebuild before it
\* for the reading thread, which may see the flag cleared while the rebuild
\* is still writing fail_state and nb_sequence.
T_StoreSeenEarly(t) ==
  /\ At(t, "construct")
  /\ machine.reconstruct # 0
  /\ machine' = [machine EXCEPT !.reconstruct = 0]
  /\ UNCHANGED <<heap, threads, lock, build, rebuilds>>
  /\ ThreadFrame

\* pthread_mutex_unlock (&machine->lock)
T_Unlock(t) ==
  /\ At(t, "unlock")
  /\ lock' = NULL
  /\ Goto(t, "goto")
  /\ UNCHANGED <<machine, heap, build, rebuilds>>
  /\ ThreadFrame

\* "return (*pstate = state_goto (*pstate, letter, machine->eq))->nb_sequence"
T_Goto(t) ==
  /\ At(t, "goto")
  /\ LET letter == ThreadsText[threads[t].fed + 1]
         next == state_goto(heap, threads[t].cursor, letter)
     IN threads' = [threads EXCEPT
                      ![t].cursor = next,
                      ![t].rets = Append(@, heap[next].nb_sequence),
                      ![t].fed = @ + 1,
                      ![t].pc = IF threads[t].fed + 1 = Len(ThreadsText)
                                THEN "done" ELSE "check"]
  /\ UNCHANGED <<machine, heap, lock, build, rebuilds>>
  /\ ThreadFrame

ThreadStep(t) ==
  \/ T_Reset(t)
  \/ T_Check(t)
  \/ T_Lock(t)
  \/ T_Recheck(t)
  \/ T_Construct(t)
  \/ T_Unlock(t)
  \/ T_Goto(t)

\* The keywords are registered before the threads are started.
NextThreads ==
  \/ \E y \in ThreadsKeywords :
       /\ threads = <<>>
       /\ calls < MaxCalls
       /\ Register(y, NewValue, NULL)
  \/ Spawn
  \/ \E t \in Threads : ThreadStep(t)
  \/ \E t \in Threads : T_StoreSeenEarly(t)

SpecThreads == Init /\ [][NextThreads]_vars

\* The same with the stores of the rebuild seen in program order
NextThreadsOrdered ==
  \/ \E y \in ThreadsKeywords :
       /\ threads = <<>>
       /\ calls < MaxCalls
       /\ Register(y, NewValue, NULL)
  \/ Spawn
  \/ \E t \in Threads : ThreadStep(t)

SpecThreadsOrdered == Init /\ [][NextThreadsOrdered]_vars

\* "ACM_ASSERT (queue = malloc (...))" at the start of
\* state_fail_state_construct: malloc may return a null pointer (no memory
\* left; for a machine with no state but state_0 its size is 0 and the null
\* pointer is one of the two results the implementation may give), and
\* ACM_ASSERT then ends the thread by pthread_exit, inside the locked region.
T_QueueNotAllocated(t) ==
  /\ At(t, "recheck")
  /\ machine.reconstruct # 0
  /\ Goto(t, "exited")
  /\ UNCHANGED <<machine, heap, lock, build, rebuilds>>
  /\ ThreadFrame

\* The threads with the failure of malloc, each thread scheduled again and
\* again as long as it can take a step
NextThreadsExit ==
  \/ NextThreads
  \/ \E t \in Threads : T_QueueNotAllocated(t)

SpecThreadsFair ==
  /\ Init
  /\ [][NextThreadsExit]_vars
  /\ \A t \in Threads : WF_vars(ThreadStep(t))

\* The same when malloc never fails
SpecThreadsFairMemory ==
  /\ Init
  /\ [][NextThreads]_vars
  /\ \A t \in Threads : WF_vars(ThreadStep(t))

-----------------------------------------------------------------------------
(* Several cursors on one machine: a caller takes each by ACM_reset and
   feeds them in turn, in any order.  Keywords are added and removed only
   while no cursor has been fed since its reset. *)

Cursors == {1, 2}

\* What ACM_get_match gives for every index below the count of the state
Results(h, state) ==
  [i \in 1..h[state].nb_sequence |-> ACM_get_match(h, state, i - 1)]

NoneFed == \A c \in DOMAIN cursors : cursors[c].fed = <<>>

\* cursors[c] = ACM_reset (machine)
C_Reset(c) ==
  /\ Alive
  /\ cursors' = [d \in DOMAIN cursors \cup {c} |->
                   IF d = c
                   THEN [state |-> ACM_reset(machine), fed |-> <<>>,
                         rets |-> <<>>, matches |-> <<>>]
                   ELSE cursors[d]]
  /\ op' = [name |-> "reset", ret |-> 0, rebuilt |-> 0]
  /\ UNCHANGED <<machine, heap, cursor, text, registry, mutated, calls, ledger,
                 threads, lock, build, reference, rebuilds, holder>>

\* ACM_match (cursors[c], letter), then ACM_get_match for every match
C_Feed(c, letter) ==
  /\ Alive
  /\ c \in DOMAIN cursors
  /\ LET r == ACM_match(machine, heap, cursors[c].state, letter)
     IN /\ machine' = r.machine
        /\ heap' = r.heap
        /\ cursors' = [cursors EXCEPT
                         ![c].state = r.pstate,
                         ![c].fed = Append(@, letter),
                         ![c].rets = Append(@, r.ret),
                         ![c].matches = Append(@, Results(r.heap, r.pstate))]
        /\ op' = [name |-> "feed", ret |-> r.ret, rebuilt |-> r.rebuilt]
  /\ UNCHANGED <<cursor, text, registry, mutated, calls, ledger,
                 threads, lock, build, reference, rebuilds, holder>>

NextCursors ==
  \/ \E y \in Keywords :
       NoneFed /\ calls < MaxCalls /\ Register(y, NewValue, NULL)
  \/ \E y \in Keywords : NoneFed /\ Unregister(y)
  \/ \E c \in Cursors : C_Reset(c)
  \/ \E c \in Cursors, letter \in Symbols :
       /\ c \in DOMAIN cursors
       /\ Len(cursors[c].fed) < MaxText
       /\ C_Feed(c, letter)

SpecCursors == Init /\ [][NextCursors]_vars

-----------------------------------------------------------------------------
(* A trie three states deep whose fail chains are three states long:
   aba fails to ba, which fails to a. *)

LayerKeywords == {<<"a">>, <<"b", "a">>, <<"a", "b", "a">>}
LayerText == <<"a", "b", "a">>

NextLayer ==
  \/ \E y \in LayerKeywords :
       calls < Cardinality(LayerKeywords) + 1 /\ Register(y, NewValue, NULL)
  \/ \E y \in LayerKeywords : Unregister(y)
  \/ Reset
  \/ Len(text) < Len(LayerText) /\ Feed(LayerText[Len(text) + 1])

SpecLayer == Init /\ [][NextLayer]_vars

-----------------------------------------------------------------------------
(* The caller that also asks: ACM_get_match after a feed, and the queries
   ACM_is_registered_keyword, ACM_nb_keywords and ACM_foreach_keyword.  A
   call stopped by ACM_ASSERT ends the calling thread: nothing follows it. *)

QueryKeywords == {<<"b">>, <<"a", "b">>}

\* The caller's thread has been ended by pthread_exit
Exited == op.name = "get_match" /\ op.fatal

\* Whether the walk of ACM_get_match over the fail chain, from state and
\* with i matches passed, reads allocated states only
RECURSIVE WalkLive(_, _, _, _)
WalkLive(h, state, index, i) ==
  IF state = NULL THEN TRUE
  ELSE IF state \notin DOMAIN h THEN FALSE
  ELSE IF ~h[state].is_matching /\ h[state].fail_state # NULL
       THEN WalkLive(h, h[state].fail_state, index, i)
  ELSE IF i = index THEN TRUE
  ELSE WalkLive(h, h[state].fail_state, index, i + 1)

\* rank = ACM_get_match (cursor, index, &match, &value).  When the walk
\* over the fail chain ends before index is reached, the buffer has been
\* resized for no symbol by the time the null state is read.  When the walk
\* reads a state that unregister has freed, what the call does is not
\* determined by the program.
GetMatch(index) ==
  /\ Alive
  /\ cursor \notin {NULL, Indeterminate}
  /\ \/ /\ index >= heap[cursor].nb_sequence \/ WalkLive(heap, cursor, index, 0)
        /\ LET r == ACM_get_match(heap, cursor, index)
           IN /\ holder' = IF ~r.fatal
                           THEN [letter |-> r.letter, length |-> Len(r.letter),
                                 rank |-> r.rank, value |-> r.value]
                           ELSE IF index < heap[cursor].nb_sequence
                           THEN [holder EXCEPT !.letter = <<>>, !.length = 0]
                           ELSE holder
              /\ op' = [name |-> "get_match", rebuilt |-> 0, fatal |-> r.fatal,
                        ret |-> IF r.fatal THEN Indeterminate ELSE r.rank]
     \/ /\ index < heap[cursor].nb_sequence
        /\ ~WalkLive(heap, cursor, index, 0)
        /\ \E fatal \in BOOLEAN, n \in 0..machine.rank :
             /\ holder' = IF fatal THEN holder
                          ELSE [letter |-> <<>>, length |-> 0, rank |-> n, value |-> NULL]
             /\ op' = [name |-> "get_match", rebuilt |-> 0, fatal |-> fatal,
                       ret |-> IF fatal THEN Indeterminate ELSE n]
  /\ UNCHANGED <<machine, heap, cursor, text, registry, mutated, calls, ledger,
                 threads, lock, build, reference, rebuilds, cursors>>

\* ACM_is_registered_keyword (machine, y, &value)
IsRegistered(y) ==
  /\ Alive
  /\ LET r == ACM_is_registered_keyword(machine, heap, y)
     IN /\ holder' = IF r.ret = 1 THEN [holder EXCEPT !.value = r.value] ELSE holder
        /\ op' = [name |-> "is_registered", ret |-> r.ret, rebuilt |-> 0]
  /\ UNCHANGED <<machine, heap, cursor, text, registry, mutated, calls, ledger,
                 threads, lock, build, reference, rebuilds, cursors>>

\* ACM_nb_keywords (machine)
NbKeywords ==
  /\ Alive
  /\ op' = [name |-> "nb_keywords", ret |-> ACM_nb_keywords(machine), rebuilt |-> 0]
  /\ UNCHANGED <<machine, heap, cursor, text, registry, mutated, calls, ledger,
                 scanning>>

\* ACM_foreach_keyword (machine, on_keyword); ret is the number of calls of
\* the operator
Foreach ==
  /\ Alive
  /\ op' = [name |-> "foreach", rebuilt |-> 0,
            ret |-> Len(ACM_foreach_keyword(machine, heap, on_keyword))]
  /\ UNCHANGED <<machine, heap, cursor, text, registry, mutated, calls, ledger,
                 scanning>>

NextQueries ==
  \/ \E y \in QueryKeywords :
       ~Exited /\ calls < MaxCalls /\ Register(y, NewValue, NULL)
  \/ \E y \in QueryKeywords : ~Exited /\ Unregister(y)
  \/ ~Exited /\ Reset
  \/ \E letter \in Symbols : ~Exited /\ Len(text) < MaxText /\ Feed(letter)
  \/ \E index \in 0..MaxText : ~Exited /\ GetMatch(index)
  \/ \E y \in QueryKeywords : ~Exited /\ IsRegistered(y)
  \/ ~Exited /\ NbKeywords
  \/ ~Exited /\ Foreach

SpecQueries == Init /\ [][NextQueries]_vars

-----------------------------------------------------------------------------
(* What the properties speak of *)

IsSuffix(k, t) ==
  /\ Len(k) <= Len(t)
  /\ SubSeq(t, Len(t) - Len(k) + 1, Len(t)) = k

Registered == {e.keyword : e \in registry}

\* The registered keywords that are suffixes of the text fed so far
SuffixKeywords == {k \in Registered : IsSuffix(k, text)}

\* The cursor comes from a reset and every keyword change came before its first feed
CursorFresh == cursor \notin {NULL, Indeterminate} /\ ~mutated

FedFresh == op.name = "feed" /\ CursorFresh

\* Some unregister has succeeded: fewer registrations stand than were made
UnregisterSucceeded == machine.rank > Cardinality(registry)

\* The state a keyword's path ends on, NULL when the path is not in the trie
PathState(k) == FollowAll(heap, machine.state_0, k, 1)

\* The feeds of the symbols of letters, one after the other, from pstate
RECURSIVE FeedAll(_, _, _, _, _)
FeedAll(m, h, pstate, letters, j) ==
  IF j > Len(letters) THEN [machine |-> m, heap |-> h, pstate |-> pstate]
  ELSE LET r == ACM_match(m, h, pstate, letters[j])
       IN FeedAll(r.machine, r.heap, r.pstate, letters, j + 1)

\* match_at(i) on the cursor
MatchAt(i) == ACM_get_match(heap, cursor, i)

\* match_at(i) names a registered keyword with its rank and value
MatchIsRegistered(i) ==
  LET g == MatchAt(i)
  IN /\ ~g.fatal
     /\ \E e \in registry : e.keyword = g.letter /\ e.rank = g.rank /\ e.value = g.value

-----------------------------------------------------------------------------
(* C1: after any sequence of register and unregister calls, is_registered(k)
   is true exactly for the keywords whose last successful register has not
   been undone by a successful unregister, and it reports the value passed
   to that register. *)
C1_AbstractMap ==
  \A k \in Keywords :
    LET r == ACM_is_registered_keyword(machine, heap, k)
    IN IF k \in Registered
       THEN r.ret = 1 /\ \E e \in registry : e.keyword = k /\ e.value = r.value
       ELSE r.ret = 0

\* an unregister has just succeeded: a keyword registered after the first one
\* is still found, and a path of the trie ends on a state that is no keyword
C1_Witness ==
  /\ op.name = "unregister" /\ op.ret = 1
  /\ \E e \in registry : e.rank > 0 /\ ACM_is_registered_keyword(machine, heap, e.keyword).ret = 1
  /\ \E k \in Keywords : k # <<>> /\ k \notin Registered /\ PathState(k) # NULL

(* C2: with keywords only ever added, each feed from a fresh cursor returns
   the number of registered keywords that are suffixes of the text fed. *)
C2_FeedCountsSuffixes ==
  FedFresh => op.ret = Cardinality(SuffixKeywords)

\* a feed that counts two keywords at once
C2_Witness ==
  FedFresh /\ op.ret = 2 /\ Cardinality(SuffixKeywords) = 2

(* C3: after a successful unregister, every feed from a fresh cursor returns
   the number of still registered keywords that are suffixes of the text
   fed, and no valid match_at index yields a keyword that is not registered. *)
C3_FeedAfterUnregister ==
  (UnregisterSucceeded /\ FedFresh) =>
    /\ op.ret = Cardinality(SuffixKeywords)
    /\ \A i \in 0..(op.ret - 1) :
         LET g == MatchAt(i)
         IN g.fatal \/ g.letter = <<>> \/ g.letter \in Registered

(* C4: feeding a registered keyword from a fresh cursor ends on a state
   whose match_at(0) gives back the keyword, its value and its rank. *)
C4_RoundTrip ==
  \A e \in registry :
    LET r == FeedAll(machine, heap, ACM_reset(machine), e.keyword, 1)
        g == ACM_get_match(r.heap, r.pstate, 0)
    IN /\ ~g.fatal
       /\ g.letter = e.keyword
       /\ g.value = e.value
       /\ g.rank = e.rank

\* a keyword of two symbols stands after another registration was undone
C4_Witness ==
  /\ UnregisterSucceeded
  /\ \E e \in registry : Len(e.keyword) = 2 /\ e.rank > 0

(* C5: when feed has just returned n, every match_at(i) with i < n names a
   registered keyword that is a suffix of the text fed, with its rank and
   value; the keywords come by decreasing length. *)
C5_MatchesAreSuffixKeywords ==
  FedFresh =>
    /\ \A i \in 0..(op.ret - 1) :
         MatchIsRegistered(i) /\ IsSuffix(MatchAt(i).letter, text)
    /\ \A i, j \in 0..(op.ret - 1) :
         i < j => Len(MatchAt(i).letter) > Len(MatchAt(j).letter)

\* match_at(i) yields keyword k with rank r
MatchYields(i, k, r) ==
  LET g == MatchAt(i)
  IN ~g.fatal /\ g.letter = k /\ g.rank = r

\* The keywords registered, each with its rank
Ranks == {<<e.keyword, e.rank>> : e \in registry}

\* he, she, his, hers were registered in that order and none was removed
S1Registered ==
  /\ machine.rank = 4
  /\ Ranks = {<<he, 0>>, <<she, 1>>, <<his, 2>>, <<hers, 3>>}

(* C6 as claimed: he, she, his, hers registered in that order and 'ushers'
   fed from a fresh cursor: the feed of the final 's' returns 2, match_at(0)
   yields she with rank 1 and match_at(1) yields hers with rank 3. *)
C6_S1_AsClaimed ==
  (S1Registered /\ FedFresh /\ text = UshersText) =>
    /\ op.ret = 2
    /\ MatchYields(0, she, 1)
    /\ MatchYields(1, hers, 3)

(* C6 amended: the feed of 'e' at position 3 returns 2, match_at(0) yields
   she with rank 1 and match_at(1) yields he with rank 0; the feed of the
   final 's' at position 5 returns 1 and match_at(0) yields hers with rank 3. *)
C6_S1 ==
  (S1Registered /\ FedFresh) =>
    /\ text = SubSeq(UshersText, 1, 4) =>
         op.ret = 2 /\ MatchYields(0, she, 1) /\ MatchYields(1, he, 0)
    /\ text = UshersText =>
         op.ret = 1 /\ MatchYields(0, hers, 3)

C6_Witness ==
  S1Registered /\ FedFresh /\ text = UshersText /\ op.ret = 1

\* abcde and bcd are registered
S2Registered == Registered = {abcde, bcd}

RankOf(k) == (CHOOSE e \in registry : e.keyword = k).rank

(* C7 as claimed: abcde and bcd registered and 'abcde' fed from a fresh
   cursor: the feed at position 2 returns 1 (bcd) and the feed at position 4
   returns 1 (abcde). *)
C7_S2_AsClaimed ==
  (S2Registered /\ FedFresh) =>
    /\ text = SubSeq(AbcdeText, 1, 3) =>
         op.ret = 1 /\ MatchYields(0, bcd, RankOf(bcd))
    /\ text = AbcdeText =>
         op.ret = 1 /\ MatchYields(0, abcde, RankOf(abcde))

(* C7 amended: the feed at position 2 returns 0, the feed at position 3
   returns 1 (bcd) and the feed at position 4 returns 1 (abcde). *)
C7_S2 ==
  (S2Registered /\ FedFresh) =>
    /\ text = SubSeq(AbcdeText, 1, 3) => op.ret = 0
    /\ text = SubSeq(AbcdeText, 1, 4) =>
         op.ret = 1 /\ MatchYields(0, bcd, RankOf(bcd))
    /\ text = AbcdeText =>
         op.ret = 1 /\ MatchYields(0, abcde, RankOf(abcde))

C7_Witness ==
  S2Registered /\ FedFresh /\ text = SubSeq(AbcdeText, 1, 4) /\ op.ret = 1

\* he, she, hers, his were registered in that order and hers was removed
S3Registered ==
  /\ machine.rank = 4
  /\ Ranks = {<<he, 0>>, <<she, 1>>, <<his, 3>>}

(* C8: he, she, hers, his registered in that order and hers unregistered:
   keyword_count is 3 and, 'ushers' being fed from a fresh cursor, no feed
   reports hers (the final 's' reports nothing) and the feed at position 3
   still reports she. *)
C8_S3 ==
  S3Registered =>
    /\ ACM_nb_keywords(machine) = 3
    /\ FedFresh =>
         /\ \A i \in 0..(op.ret - 1) : ~MatchAt(i).fatal /\ MatchAt(i).letter # hers
         /\ text = UshersText => op.ret = 0
         /\ text = SubSeq(UshersText, 1, 4) =>
              \E i \in 0..(op.ret - 1) : MatchYields(i, she, 1)

C8_Witness ==
  S3Registered /\ FedFresh /\ text = UshersText /\ op.ret = 0

(* C9: a, ab, bc registered in that order, each before the feed of the same
   number, through one cursor that is never reset: the feed of a returns 1,
   the feed of b returns 1 with match ab, the feed of c returns 1 with match
   bc, and each feed runs the rebuild at most once and leaves the failure
   layer clean. *)
C9_S5 ==
  (op.name = "feed" /\ cursor # Indeterminate) =>
    /\ text = <<"a">> => op.ret = 1 /\ MatchYields(0, <<"a">>, 0)
    /\ text = <<"a", "b">> => op.ret = 1 /\ MatchYields(0, <<"a", "b">>, 1)
    /\ text = <<"a", "b", "c">> => op.ret = 1 /\ MatchYields(0, <<"b", "c">>, 2)
    /\ op.rebuilt <= 1
    /\ machine.reconstruct = 0

\* bc was registered between the feed of b and the feed of c
C9_Witness ==
  /\ op.name = "feed" /\ text = <<"a", "b", "c">>
  /\ mutated /\ op.rebuilt = 1 /\ op.ret = 1

(* C10: a register that returns false (empty keyword, keyword already
   registered) changes nothing: the machine's counters and flag, every
   state of the trie, the cursor. *)
C10_FailedRegisterChangesNothing ==
  [][(op'.name = "register" /\ op'.ret = 0) =>
       (machine' = machine /\ heap' = heap /\ cursor' = cursor /\ registry' = registry)]_vars

\* a register refused on a machine that holds keywords and a clean failure layer
C10_Witness ==
  /\ op.name = "register" /\ op.ret = 0
  /\ machine.reconstruct = 0 /\ machine.nb_sequence > 0

(* C11: whenever register returns false (empty keyword, keyword already
   registered) and a value was supplied with a destructor, the destructor is
   called on that value exactly once before register returns. *)
C11_RefusedValueIsDestroyed ==
  [][\A y \in Keywords :
       (Register(y, NewValue, free_value) /\ op'.ret = 0) =>
         Count(ledger'.dtors, NewValue) = Count(ledger.dtors, NewValue) + 1]_vars

\* The keywords is_registered finds, and the rank stored with each
InTrie == {k \in Keywords : get_last_state(machine, heap, k) # NULL}

KeywordRank(k) == heap[get_last_state(machine, heap, k)].rank

KeywordValue(k) == heap[get_last_state(machine, heap, k)].value

(* C12: each successful register assigns the current value of a counter
   that starts at 0, goes up by one and is never taken back by unregister:
   the rank assigned is above every rank in use, the registered keywords
   have pairwise distinct ranks, each below the counter. *)
C12_Ranks ==
  /\ [](/\ \A k \in InTrie : KeywordRank(k) < machine.rank
        /\ \A k1, k2 \in InTrie : k1 # k2 => KeywordRank(k1) # KeywordRank(k2)
        /\ \A e1, e2 \in registry :
             e1.value < e2.value => KeywordRank(e1.keyword) < KeywordRank(e2.keyword))
  /\ [][ /\ machine'.rank >= machine.rank
         /\ (op'.name = "register" /\ op'.ret = 1) =>
              /\ machine'.rank = machine.rank + 1
              /\ \E k \in InTrie' \ InTrie : KeywordRank(k)' = machine.rank
       ]_vars

\* the third registration, made after an unregister
C12_Witness ==
  /\ op.name = "register" /\ op.ret = 1
  /\ machine.rank = 3 /\ Cardinality(InTrie) = 2
  /\ \E k \in InTrie : KeywordRank(k) = 2

(* C13: the rank of a registered keyword, as match_at returns it, is the
   number of calls of register made on the machine before the call that
   registered it. *)
C13_RankIsCallNumber ==
  \A e \in registry :
    LET r == FeedAll(machine, heap, ACM_reset(machine), e.keyword, 1)
        g == ACM_get_match(r.heap, r.pstate, 0)
    IN ~g.fatal /\ g.rank = e.call

\* The texts a scan is tried on: every text of MaxText symbols
Texts == {t \in SeqsUpTo(Symbols, MaxText) : Len(t) = MaxText}

\* The keywords match_at yields for the indices below n, "fatal" for an index
\* it refuses
MatchedKeywords(h, state, n) ==
  [i \in 1..n |-> LET g == ACM_get_match(h, state, i - 1)
                  IN IF g.fatal THEN <<"fatal">> ELSE g.letter]

\* What a scan of t from a fresh cursor reports: for each symbol the count
\* feed returns and the keywords of the matches
RECURSIVE Scan(_, _, _, _, _)
Scan(m, h, pstate, t, j) ==
  IF j > Len(t) THEN <<>>
  ELSE LET r == ACM_match(m, h, pstate, t[j])
       IN <<[count |-> r.ret, keywords |-> MatchedKeywords(r.heap, r.pstate, r.ret)]>>
            \o Scan(r.machine, r.heap, r.pstate, t, j + 1)

(* C14: for every registered keyword k, unregister(k) followed by
   register(k) gives k a rank above its previous rank, and afterwards every
   text produces the feed counts and the matched keywords it produced before
   the unregister. *)
C14_UnregisterThenRegister ==
  \A e \in registry :
    LET u == ACM_unregister_keyword(machine, heap, ledger, e.keyword)
        r == ACM_register_keyword(u.machine, u.heap, u.ledger, e.keyword, e.value, NULL)
        last == get_last_state(r.machine, r.heap, e.keyword)
    IN /\ u.ret = 1 /\ r.ret = 1
       /\ last # NULL /\ r.heap[last].rank > e.rank
       /\ \A t \in Texts :
            Scan(r.machine, r.heap, ACM_reset(r.machine), t, 1)
              = Scan(machine, heap, ACM_reset(machine), t, 1)

(* C15: unregister(k) returns false and leaves the machine unchanged when k
   is not registered (never registered, already unregistered, a proper
   prefix of a keyword, empty); after a successful unregister(k),
   is_registered(k) is false and a second unregister(k) returns false. *)
C15_UnregisterUnknown ==
  [][op'.name = "unregister" =>
       \A y \in Keywords :
         Unregister(y) =>
           /\ y \notin Registered =>
                /\ op'.ret = 0
                /\ machine' = machine /\ heap' = heap /\ ledger' = ledger
                /\ cursor' = cursor
           /\ y \in Registered => op'.ret = 1
           /\ op'.ret = 1 =>
                /\ ACM_is_registered_keyword(machine', heap', y).ret = 0
                /\ ACM_unregister_keyword(machine', heap', ledger', y).ret = 0
    ]_vars

\* an unregister refused for a keyword that was unregistered before and
\* whose path is still in the trie
C15_Witness ==
  /\ op.name = "unregister" /\ op.ret = 0
  /\ UnregisterSucceeded
  /\ \E k \in Keywords : k # <<>> /\ k \notin Registered /\ PathState(k) # NULL

\* The terminal states of the trie
Terminals == {s \in DOMAIN heap : heap[s].is_matching}

(* C16: after any sequence of register and unregister calls, keyword_count
   is the number of terminal states of the trie, which is the number of
   keywords is_registered finds, and it is at most next_rank. *)
C16_KeywordCount ==
  /\ ACM_nb_keywords(machine) = Cardinality(Terminals)
  /\ ACM_nb_keywords(machine) = Cardinality(InTrie)
  /\ ACM_nb_keywords(machine) <= machine.rank

\* two of three keywords were unregistered, and the trie still holds a state
\* that is no keyword's last state
C16_Witness ==
  /\ machine.rank = 3 /\ ACM_nb_keywords(machine) = 1
  /\ \E s \in DOMAIN heap : s # machine.state_0 /\ ~heap[s].is_matching
  /\ machine.size < 4

\* The states on the path of k in the trie, state_0 excluded
PathStates(k) ==
  {FollowAll(heap, machine.state_0, SubSeq(k, 1, n), 1) : n \in 1..Len(k)} \ {NULL}

(* C17: a successful unregister(k) leaves every other registered keyword
   registered, with its rank and its value; the states it removes lie on
   the path of k and on the path of no other registered keyword. *)
C17_UnregisterFrame ==
  [][(op'.name = "unregister" /\ op'.ret = 1) =>
       \A y \in Keywords :
         Unregister(y) =>
           /\ \A k \in InTrie \ {y} :
                /\ k \in InTrie'
                /\ KeywordRank(k)' = KeywordRank(k)
                /\ KeywordValue(k)' = KeywordValue(k)
           /\ \A s \in DOMAIN heap \ DOMAIN heap' :
                /\ s \in PathStates(y)
                /\ \A k \in InTrie \ {y} : s \notin PathStates(k)
    ]_vars

\* the third keyword has just been unregistered and its states removed; the
\* two others stand
C17_Witness ==
  /\ op.name = "unregister" /\ op.ret = 1
  /\ machine.rank = 3 /\ Cardinality(InTrie) = 2
  /\ machine.size = 3

(* C18: for every value accepted by a successful register together with a
   destructor, the destructor is called on it exactly once over the life of
   the machine ending with release, and never while its keyword is still
   registered. *)
C18_ValueDestroyedOnce ==
  \A v \in ledger.owned :
    /\ Count(ledger.dtors, v) <= 1
    /\ (\E e \in registry : e.value = v) => Count(ledger.dtors, v) = 0
    /\ ~Alive => Count(ledger.dtors, v) = 1

\* a released machine that had accepted three values with a destructor
C18_Witness ==
  /\ ~Alive /\ op.name = "release"
  /\ Cardinality(ledger.owned) = 3
  /\ \A v \in ledger.owned : Count(ledger.dtors, v) = 1

(* C19: each edge's symbol is made by exactly one call of the copy
   constructor, when the edge is created, and is passed to the destructor
   exactly once, when the edge is removed by unregister or by release; the
   destructor is never called on the symbol of an edge that is in the trie. *)
C19_SymbolDroppedOnce ==
  /\ \A edge \in Edges :
       /\ InstanceOf(edge) \in 1..ledger.copies
       /\ Count(ledger.drops, InstanceOf(edge)) = 0
  /\ \A e1, e2 \in Edges : e1 # e2 => InstanceOf(e1) # InstanceOf(e2)
  /\ \A n \in 1..ledger.copies :
       (\A edge \in Edges : InstanceOf(edge) # n) => Count(ledger.drops, n) = 1

(* C20: with no register or unregister in progress, when the threads each
   take their own cursor by reset and feed the text concurrently on one
   machine, their first feeds racing for the rebuild included, every thread
   obtains the feed results of a single thread feeding the same text, so
   the summed counts are those of the single thread, once per thread. *)
C20_ThreadsScanAlike ==
  \A t \in DOMAIN threads :
    \A i \in 1..Len(threads[t].rets) : threads[t].rets[i] = reference[i]

\* C21: two cursors taken by two resets on one machine and fed the same
\* symbols, their feeds interleaved in any order, get the same return from
\* every feed and the same matches from ACM_get_match at every step; a feed
\* through one cursor leaves the position of every other cursor, and the
\* count and the matches at that position, as they were.
C21_CursorsAgree ==
  /\ [](\A c \in DOMAIN cursors : \A d \in DOMAIN cursors :
         \A i \in 1..Len(cursors[c].fed) :
           (i <= Len(cursors[d].fed)
            /\ SubSeq(cursors[c].fed, 1, i) = SubSeq(cursors[d].fed, 1, i))
           => /\ cursors[c].rets[i] = cursors[d].rets[i]
              /\ cursors[c].matches[i] = cursors[d].matches[i])
  /\ [][op'.name = "feed" =>
          \A d \in DOMAIN cursors :
            cursors'[d].fed = cursors[d].fed
            => /\ cursors'[d].state = cursors[d].state
               /\ Results(heap', cursors[d].state) = Results(heap, cursors[d].state)]_vars

\* Both cursors have been fed "ab" to the end, the second symbol matched,
\* and the first feed of all ran the rebuild.
C21_Witness ==
  /\ DOMAIN cursors = Cursors
  /\ \A c \in Cursors : cursors[c].fed = <<"a", "b">> /\ cursors[c].rets[2] >= 2
  /\ machine.reconstruct = 0

\* C22: after any sequence of registers and unregisters, ACM_foreach_keyword
\* calls the operator exactly once for every keyword registered at that
\* time, with the symbols of the keyword and its value, and for nothing
\* else: not for a keyword that was unregistered, not for a prefix that is
\* no keyword.
C22_ForeachKeyword ==
  LET called == ACM_foreach_keyword(machine, heap, on_keyword)
  IN /\ Len(called) = Cardinality(registry)
     /\ {<<called[i].letter, called[i].value>> : i \in 1..Len(called)}
          = {<<e.keyword, e.value>> : e \in registry}
     /\ \A i \in 1..Len(called) : called[i].length = Len(called[i].letter)

\* An unregister has just left a state that is no keyword above a
\* registered one, next to another registered keyword.
C22_Witness ==
  /\ op.name = "unregister" /\ op.ret = 1
  /\ Registered = {<<"a", "b">>, <<"b">>}
  /\ ACM_is_registered_keyword(machine, heap, <<"a">>).ret = 0

\* The terminal states on the fail chain that starts at s, s included
RECURSIVE ChainTerminals(_, _)
ChainTerminals(h, s) ==
  IF s \notin DOMAIN h THEN 0
  ELSE (IF h[s].is_matching THEN 1 ELSE 0) + ChainTerminals(h, h[s].fail_state)

\* C23: between two operations, whenever reconstruct is 0, state_0 has no
\* fail state, every other state has a fail state that is a state of the
\* trie, and the nb_sequence of every state is the number of terminal states
\* on its fail chain, the state itself included.
C23_CleanLayer ==
  machine.reconstruct = 0 =>
    /\ heap[machine.state_0].fail_state = NULL
    /\ \A s \in DOMAIN heap \ {machine.state_0} : heap[s].fail_state \in DOMAIN heap
    /\ \A s \in DOMAIN heap : heap[s].nb_sequence = ChainTerminals(heap, s)

\* A feed has just run state_fail_state_construct to its end
Rebuilt == op.name = "feed" /\ op.rebuilt = 1

\* C24: right after a rebuild, the nb_sequence of every state is 1 if the
\* state is terminal and 0 if not, plus the nb_sequence of its fail state
\* when it has one.
C24_OutputIdentity ==
  Rebuilt =>
    \A s \in DOMAIN heap :
      heap[s].nb_sequence =
        (IF heap[s].is_matching THEN 1 ELSE 0)
        + (IF heap[s].fail_state = NULL THEN 0
           ELSE heap[heap[s].fail_state].nb_sequence)

\* After four calls of register a rebuild has given the state of aba the
\* count 3 over the chain aba, ba, a.
C24_Witness ==
  /\ Rebuilt
  /\ \E s \in DOMAIN heap :
       /\ MatchLetters(heap, s) = <<"a", "b", "a">>
       /\ heap[s].nb_sequence = 3
  /\ calls > Cardinality(LayerKeywords)

\* The states whose path from state_0 spells a proper suffix of the path of s
ProperSuffixStates(s) ==
  {t \in DOMAIN heap :
     /\ Len(MatchLetters(heap, t)) < Len(MatchLetters(heap, s))
     /\ IsSuffix(MatchLetters(heap, t), MatchLetters(heap, s))}

\* C25: right after a rebuild, the fail state of every state but state_0 is
\* the state of the longest proper suffix of its path that is itself a path
\* from state_0 (state_0 when only the empty suffix is), and is strictly
\* closer to state_0 than the state.
C25_FailIsLongestSuffix ==
  Rebuilt =>
    \A s \in DOMAIN heap \ {machine.state_0} :
      /\ heap[s].fail_state \in ProperSuffixStates(s)
      /\ \A t \in ProperSuffixStates(s) :
           Len(MatchLetters(heap, t)) <= Len(MatchLetters(heap, heap[s].fail_state))

\* A rebuild has made the state of aba fail to the state of ba, and the
\* state of b to state_0.
C25_Witness ==
  /\ Rebuilt
  /\ \E s \in DOMAIN heap :
       /\ MatchLetters(heap, s) = <<"a", "b", "a">>
       /\ MatchLetters(heap, heap[s].fail_state) = <<"b", "a">>
  /\ \E s \in DOMAIN heap :
       /\ MatchLetters(heap, s) = <<"b">>
       /\ heap[s].fail_state = machine.state_0

\* C26: a register or an unregister that returns 1 while reconstruct is 0
\* leaves reconstruct at 2, whether the unregister clears a terminal state
\* that has children or prunes a leaf.
C26_MutationMarksLayer ==
  [][(op'.name \in {"register", "unregister"} /\ op'.ret = 1
      /\ machine.reconstruct = 0)
     => machine'.reconstruct = 2]_vars

\* C27: reconstruct is 1 from ACM_create until the first rebuild and never
\* after it; as long as it is 1, whatever was registered and unregistered,
\* the nb_sequence of every state is 1 if the state is terminal and 0 if
\* not, so that the first rebuild, which does not reset the counts, leaves
\* in every state the number of terminal states on its fail chain.
C27_FirstRebuild ==
  /\ [](machine.reconstruct = 1 =>
          \A s \in DOMAIN heap :
            heap[s].nb_sequence = IF heap[s].is_matching THEN 1 ELSE 0)
  /\ [][
        /\ (machine'.reconstruct = 1 => machine.reconstruct = 1)
        /\ ((machine.reconstruct = 1 /\ op'.rebuilt = 0) => machine'.reconstruct = 1)
        /\ ((machine.reconstruct = 1 /\ op'.rebuilt = 1) =>
              /\ machine'.reconstruct = 0
              /\ \A s \in DOMAIN heap' :
                   heap'[s].nb_sequence = ChainTerminals(heap', s))
       ]_vars

\* Still before the first rebuild, the three keywords are registered, one
\* of them for the second time after it was unregistered.
C27_Witness ==
  /\ machine.reconstruct = 1
  /\ op.name = "register" /\ op.ret = 1
  /\ machine.rank = Cardinality(LayerKeywords) + 1
  /\ Registered = LayerKeywords

\* The last operation was a register or an unregister that returned 1
Mutated == op.name \in {"register", "unregister"} /\ op.ret = 1

\* C28: the first feed after registers and unregisters runs the rebuild, once
\* for all of them, and no feed runs it again before the next register or
\* unregister: a feed that finds reconstruct at 0 runs no rebuild and
\* changes nothing in the machine, a rebuild leaves reconstruct at 0, and
\* only a register or an unregister takes it away from 0.  The feeds are
\* those through a cursor that points to a state of the trie.
C28_OneRebuild ==
  [][
     /\ ((Mutated /\ op'.name = "feed" /\ cursor # Indeterminate) => op'.rebuilt = 1)
     /\ ((op'.name = "feed" /\ machine.reconstruct = 0) =>
           (op'.rebuilt = 0 /\ heap' = heap /\ machine' = machine))
     /\ (op'.rebuilt = 1 => (machine.reconstruct # 0 /\ machine'.reconstruct = 0))
     /\ ((machine.reconstruct = 0 /\ machine'.reconstruct # 0) =>
           op'.name \in {"register", "unregister"})
    ]_vars

\* The same for the threads that scan after the last register: together
\* they begin at most one rebuild, and a thread that reads reconstruct at 0
\* goes on to state_goto without taking the lock.
ThreadsRebuildOnce ==
  /\ [](rebuilds <= 1)
  /\ [][\A t \in DOMAIN threads :
          (threads[t].pc = "check" /\ machine.reconstruct = 0
           /\ threads'[t].pc # "check")
          => (threads'[t].pc = "goto" /\ lock' = lock)]_vars

\* The threads inside state_fail_state_construct
Rebuilding == {t \in DOMAIN threads : threads[t].pc = "construct"}

\* C29: at most one thread is rebuilding the failure layer at any time, and
\* while one is, no thread is about to follow the transitions or read a
\* count: a thread gets past the test of reconstruct only once the rebuild
\* has written every fail state and every count.
C29_RebuildAlone ==
  /\ Cardinality(Rebuilding) <= 1
  /\ Rebuilding # {} => \A t \in DOMAIN threads : threads[t].pc # "goto"

\* C30: when every thread that can take a step is scheduled sooner or
\* later, every feed of every thread returns: each thread started on the
\* text gets to the end of it, none waits for the lock for ever.
C30_FeedsReturn ==
  \A t \in Threads : (t \in DOMAIN threads) ~> At(t, "done")

\* The fail chain of s: s, its fail state, and so on to the state that has none
RECURSIVE FailChain(_, _)
FailChain(h, s) ==
  IF s = NULL THEN <<>> ELSE <<s>> \o FailChain(h, h[s].fail_state)

\* The symbols of the keywords and one that is on no edge
AnySymbols == Symbols \cup {"c"}

\* C31: with the failure layer built, the fail chain of every state ends at
\* state_0, every link going strictly closer to state_0, and state_goto
\* returns for every state and symbol the child by that symbol of the first
\* state on the chain that has such an edge, state_0 when none has; a feed
\* on a machine without keywords returns 0 and leaves the cursor at state_0.
C31_GotoWalksFailChain ==
  /\ [](machine.reconstruct = 0 =>
          \A s \in DOMAIN heap :
            LET chain == FailChain(heap, s)
            IN /\ chain[Len(chain)] = machine.state_0
               /\ \A i \in 1..(Len(chain) - 1) :
                    Len(MatchLetters(heap, chain[i + 1])) < Len(MatchLetters(heap, chain[i]))
               /\ \A c \in AnySymbols :
                    LET having == {i \in 1..Len(chain) : GotoIndex(heap, chain[i], c) # 0}
                        first == CHOOSE i \in having : \A j \in having : i <= j
                    IN state_goto(heap, s, c) =
                         IF having = {} THEN machine.state_0
                         ELSE heap[chain[first]].goto_array[
                                GotoIndex(heap, chain[first], c)].state)
  /\ [][(op'.name = "feed" /\ registry = {} /\ cursor # Indeterminate)
        => (op'.ret = 0 /\ cursor' = machine.state_0)]_vars

\* The layer is built and state_goto from the state of aba by b ends on the
\* state of ab, found on the third state of the chain aba, ba, a, state_0.
C31_Witness ==
  /\ machine.reconstruct = 0
  /\ \E s \in DOMAIN heap :
       /\ MatchLetters(heap, s) = <<"a", "b", "a">>
       /\ Len(FailChain(heap, s)) = 4
       /\ MatchLetters(heap, state_goto(heap, s, "b")) = <<"a", "b">>
       /\ state_goto(heap, s, "c") = machine.state_0

\* The state reached from s by following previous.state n times, NULL when
\* the links end before
RECURSIVE Ancestor(_, _, _)
Ancestor(h, s, n) ==
  IF n = 0 \/ s = NULL \/ s \notin DOMAIN h THEN s
  ELSE Ancestor(h, h[s].previous.state, n - 1)

\* C32: after any registers and unregisters, every state s but state_0 is
\* the target of the edge of its parent that its back-link names,
\* previous.state->goto_array[previous.i_letter].state = s, and the parent
\* links lead from s to state_0 in fewer steps than there are states; the
\* back-links of the siblings that unregister shifts down stay right.
C32_TreeShape ==
  /\ heap[machine.state_0].previous.state = NULL
  /\ \A s \in DOMAIN heap \ {machine.state_0} :
       LET prev == heap[s].previous.state
           i_letter == heap[s].previous.i_letter
       IN /\ prev \in DOMAIN heap
          /\ i_letter + 1 \in 1..nb_goto(heap, prev)
          /\ heap[prev].goto_array[i_letter + 1].state = s
          /\ \E n \in 1..Cardinality(DOMAIN heap) :
               Ancestor(heap, s, n) = machine.state_0

\* An unregister has just removed an edge of state_0 and left one, to the
\* state of the keyword b, which has a child; an address below that state's
\* is free, the one of a state allocated before it: the edge removed came
\* first and the edge of b was shifted down.
C32_Witness ==
  /\ op.name = "unregister" /\ op.ret = 1
  /\ <<"b">> \in Registered
  /\ nb_goto(heap, machine.state_0) = 1
  /\ LET s == heap[machine.state_0].goto_array[1].state
     IN /\ heap[machine.state_0].goto_array[1].letter = "b"
        /\ nb_goto(heap, s) = 1
        /\ s # malloc(free(heap, s))
        /\ heap[s].previous.i_letter = 0

\* C33: after any registers and unregisters, no state has two edges whose
\* symbols are equal under the machine's equality.
C33_EdgesDistinct ==
  \A s \in DOMAIN heap :
    \A j \in 1..nb_goto(heap, s) : \A k \in 1..nb_goto(heap, s) :
      eq(heap[s].goto_array[j].letter, heap[s].goto_array[k].letter) => j = k

\* Two registered keywords share their first symbol: state_0 has one edge,
\* whose target has two.
C33_Witness ==
  /\ {<<"a", "a">>, <<"a", "b">>} \subseteq Registered
  /\ nb_goto(heap, machine.state_0) = 1
  /\ nb_goto(heap, heap[machine.state_0].goto_array[1].state) = 2

\* C34: after any registers and unregisters, machine->size is the number of
\* states of the trie, one more than the number of edges, and the queue of
\* a rebuild run at that point, allocated for size - 1 states, receives no
\* more than that.
C34_SizeCountsStates ==
  /\ machine.size = Cardinality(DOMAIN heap)
  /\ machine.size = 1 + Cardinality(Edges)
  /\ Len(state_fail_state_construct(machine, heap).queue) <= machine.size - 1

\* An unregister has just pruned the states of the second of two keywords;
\* state_0 and the state of the first one are left.
C34_Witness ==
  /\ op.name = "unregister" /\ op.ret = 1
  /\ machine.rank = 2
  /\ machine.size = 2
  /\ \E e \in registry : Len(e.keyword) = 1

\* C35: after any registers and unregisters, every state without edges,
\* state_0 apart, is the last state of a keyword.
C35_LeavesAreTerminal ==
  \A s \in DOMAIN heap \ {machine.state_0} :
    nb_goto(heap, s) = 0 => heap[s].is_matching

\* After the registers of a keyword of two symbols and of b, the unregister
\* of the first has pruned its two states in one call.
C35_Witness ==
  /\ op.name = "unregister" /\ op.ret = 1
  /\ machine.rank = 2
  /\ Registered = {<<"b">>}
  /\ DOMAIN heap = {1, 4}

\* C36: ACM_get_match called with an index that is not below the nb_sequence
\* of the cursor's state is fatal: no rank comes back to the caller, and the
\* machine, its states and the caller's MatchHolder and value pointer are
\* left as they were.
C36_IndexOutOfRange ==
  [][op'.name = "get_match" =>
       \A index \in 0..MaxText :
         (GetMatch(index) /\ index >= heap[cursor].nb_sequence)
         => /\ op'.fatal
            /\ op'.ret = Indeterminate
            /\ holder' = holder
            /\ machine' = machine
            /\ heap' = heap]_vars

\* After the feeds of a and b matched ab and b, the match of index 1 was
\* fetched and the call with index 2 has ended the thread, the MatchHolder
\* still holding b.
C36_Witness ==
  /\ op.name = "get_match" /\ op.fatal
  /\ machine.reconstruct = 0
  /\ cursor \in DOMAIN heap
  /\ heap[cursor].nb_sequence = 2
  /\ holder.letter = <<"b">>

\* The operations that only read the machine
Readers == {"reset", "feed", "get_match", "is_registered", "nb_keywords", "foreach"}

\* C37: once reconstruct is 0, ACM_reset, ACM_match, ACM_get_match,
\* ACM_is_registered_keyword, ACM_nb_keywords and ACM_foreach_keyword change
\* no field of the machine and no field of any state; only the caller's
\* cursor, MatchHolder and value pointer change.
C37_ReadersWriteNothing ==
  [][(machine.reconstruct = 0 /\ op'.name \in Readers)
     => /\ machine' = machine
        /\ heap' = heap
        /\ ledger' = ledger]_vars

\* With reconstruct at 0 a feed has run no rebuild and counted two keywords,
\* after an earlier ACM_get_match filled the MatchHolder.
C37_Witness ==
  /\ machine.reconstruct = 0
  /\ op.name = "feed" /\ op.rebuilt = 0 /\ op.ret = 2
  /\ holder.letter # <<>>

\* A register has just succeeded while a cursor obtained before it is on a
\* state of the trie
RegisteredUnderCursor ==
  /\ op.name = "register" /\ op.ret = 1
  /\ cursor \notin {NULL, Indeterminate}

\* The feeds of the symbols of letters through the cursor: the last of them
\* returns a count under which match_at yields the registry entry e
FeedsFind(e, letters) ==
  LET f == FeedAll(machine, heap, cursor, SubSeq(letters, 1, Len(letters) - 1), 1)
      r == ACM_match(f.machine, f.heap, f.pstate, letters[Len(letters)])
  IN \E i \in 0..(r.ret - 1) :
       LET g == ACM_get_match(r.heap, r.pstate, i)
       IN /\ ~g.fatal
          /\ g.letter = e.keyword
          /\ g.rank = e.rank
          /\ g.value = e.value

\* C38: a cursor obtained before a register stays usable without reset:
\* whatever symbols are fed through it after the register, an occurrence of
\* the new keyword made of those symbols only is counted by the feed of its
\* last symbol and match_at yields it, with its rank and value.
C38_CursorSurvivesRegister ==
  RegisteredUnderCursor =>
    \A e \in registry :
      e.rank = machine.rank - 1 =>
        \A before \in SeqsUpTo(Symbols, MaxLen) :
          FeedsFind(e, before \o e.keyword)

\* The cursor has been fed and stands below the root when a keyword of two
\* symbols is registered on a machine whose failure layer was built before.
C38_Witness ==
  /\ RegisteredUnderCursor
  /\ text # <<>>
  /\ cursor # machine.state_0
  /\ machine.reconstruct = 2
  /\ \E e \in registry : e.rank = machine.rank - 1 /\ Len(e.keyword) = 2

(* C39: after a successful unregister a cursor obtained before it is still
   on a state of the machine's trie, and match_at on that cursor, for every
   index below the count of the state, reads only states of the trie. *)
C39_UnregisterKeepsCursor ==
  (op.name = "unregister" /\ op.ret = 1 /\ cursor # NULL) =>
    /\ cursor \in DOMAIN heap
    /\ \A index \in 0..(heap[cursor].nb_sequence - 1) :
         WalkLive(heap, cursor, index, 0)

====
